---- MODULE Spec2Model ----
(***************************************************************************)
(* Model of the OpenAI-compatible chat client of pokitpeng/ai              *)
(* (pkg/models/openai.go): OpenAIClient.Chat, handleNormalResponse and     *)
(* handleStreamResponse.                                                   *)
(*                                                                         *)
(* Text is modelled as a sequence of symbols, so that concatenation,       *)
(* prefixes and suffixes are computed and not assumed.  A response body is *)
(* a sequence of lines; a line is the record                               *)
(*   [pre, payload, choices, bytes]                                        *)
(* whose text is pre followed by payload: pre is what precedes the         *)
(* payload ("data: ", "data:", ": " or nothing), payload names the text    *)
(* after it, choices is the "choices" array of a payload that is a JSON    *)
(* object, and bytes is the length of the line in bytes.                   *)
(***************************************************************************)
EXTENDS Integers, Sequences, FiniteSets, TLC

\* ------------------------------------------------------------------ bounds
MaxLines == 3
MaxBodyLines == 2
MaxURLLen == 3
\* most options passed to one call of a model
MaxOptions == 2
\* most model names given to askMultiModels
MaxWorkers == 2
\* the model names and base URLs given to the manager
Names == {"gpt", "claude"}
URLs == {"u1"}

\* ------------------------------------------------------- program constants
\* bufio.MaxScanTokenSize, the buffer limit of the bufio.Scanner that
\* handleStreamResponse creates without calling Buffer
MaxScanTokenSize == 65536
\* http.StatusOK
StatusOK == 200

\* --------------------------------------------------------------- the state
VARIABLES
    cfgURL,       \* OpenAIClient.apiURL of the client
    optStream,    \* opts.Stream of the call
    optTempOK,    \* opts.Temperature is a finite number (json.Marshal accepts it)
    net,          \* what the HTTP round trip of this call will produce
    body,         \* the lines the response body holds
    failAt,       \* number of lines the reader delivers before Read fails; -1: never fails
    pc,           \* position of OpenAIClient.Chat
    reqURL,       \* URL of the HTTP request the call created (empty before)
    requests,     \* number of HTTP requests sent by the call
    peerURL,      \* apiURL of a second client
    peerReq,      \* URL of the request the second client created
    spc,          \* position of handleStreamResponse
    avail,        \* lines the scanner has read into its buffer
    serr,         \* scanner.err
    pos,          \* lines the scanner has returned as tokens
    brk,          \* the read loop was left by break
    fullContent,  \* strings.Builder fullContent
    stdout,       \* what the decoder printed
    result,       \* returned string
    err,          \* returned error
    messages,     \* the messages handed to OpenAIClient.Chat
    opts,         \* opts.Temperature, opts.MaxTokens and opts.History of the call
    request,      \* the OpenAIRequest that Chat serialized
    cancelled,    \* where the call was when the caller cancelled ctx, or "no"
    bodyClosed,   \* resp.Body.Close() has run
    ask,          \* the call of OpenAIModel.Chat or ChatWithFile and the model's config
    fpc,          \* position of that call
    configs,      \* ModelManager.configs
    models,       \* ModelManager.models
    defaultModel, \* ModelManager.defaultModel
    configFile,   \* the file at ModelManager.configFile
    mpc,          \* position of the manager's process
    merr,         \* error returned by the manager's last operation
    fresh,        \* a second ModelManager, started on the same file
    held,         \* the config a caller got from GetModelConfig or ListModels
    mlast,        \* the manager's call that has just returned, and its arguments
    cpc,          \* position of the command
    command,      \* the command line
    stderr,       \* what the command wrote to os.Stderr
    exitCode,     \* exit status of the process, -1 while it runs
    session,      \* the messages of the history manager's current session
    modelNames,   \* askMultiModels: the names asked
    mainpc,       \* askMultiModels: position of the function
    wpc,          \* askMultiModels: position of each worker
    wres,         \* askMultiModels: the result each worker holds
    wg,           \* askMultiModels: counter of the WaitGroup
    responsesCh,  \* askMultiModels: buffer of the channel
    chClosed,     \* askMultiModels: how many times the channel was closed
    closerpc,     \* askMultiModels: position of the goroutine that closes it
    received,     \* askMultiModels: the results the range loop received
    hcur,         \* history.Manager.currentSession of each process
    curFile,      \* the file current_session.json
    sessFiles,    \* the files of the directory sessions, by name
    hpc,          \* position of each process that uses the history manager
    hlast,        \* the history manager's call that has just returned
    hgen,         \* how many session IDs generateSessionID has given out
    factory       \* a call of CreateModel and of the Chat of the model it made

vars == <<cfgURL, optStream, optTempOK, net, body, failAt, pc, reqURL, requests,
          peerURL, peerReq, spc, avail, serr, pos, brk, fullContent, stdout, result, err,
          messages, opts, request, cancelled, bodyClosed, ask, fpc,
          configs, models, defaultModel, configFile, mpc, merr, fresh,
          held, mlast,
          cpc, command, stderr, exitCode, session,
          modelNames, mainpc, wpc, wres, wg, responsesCh, chClosed, closerpc,
          received, hcur, curFile, sessFiles, hpc, hlast, hgen, factory>>

chatVars == <<cfgURL, optStream, optTempOK, net, pc, reqURL, requests, peerURL,
              peerReq>>
scanVars == <<avail, serr, pos, brk, fullContent, stdout>>
\* the arguments of OpenAIClient.Chat
argVars == <<messages, opts>>
\* the model manager
mgrVars == <<configs, models, defaultModel, configFile, mpc, merr, fresh,
             held, mlast>>
\* the command
cliVars == <<cpc, command, stderr, exitCode, session>>
\* askMultiModels
multiVars == <<modelNames, mainpc, wpc, wres, wg, responsesCh, chClosed, closerpc,
          received>>
\* what the program holds outside of the models
\* the history manager and its files
histVars == <<hcur, curFile, sessFiles, hpc, hlast, hgen>>
appVars == <<mgrVars, cliVars, multiVars, histVars, factory>>
\* what the callers of the client hold
outerVars == <<ask, fpc, appVars>>

\* ------------------------------------------------------------------- data
NoErr == [kind |-> "nil", status |-> 0, body |-> <<>>]
ErrOf(k) == [kind |-> k, status |-> 0, body |-> <<>>]

Choice(delta, role, message, finish) ==
    [delta |-> delta, role |-> role, message |-> message, finish |-> finish]

Line(pre, payload, choices, bytes) ==
    [pre |-> pre, payload |-> payload, choices |-> choices, bytes |-> bytes]

A == <<"a">>
B == <<"b">>

\* choices arrays of stream chunks (delta) and of envelopes (message)
ChoicesA == << Choice(A, "", <<>>, "null") >>
ChoicesB == << Choice(B, "", <<>>, "null") >>
ChoicesAB == << Choice(A, "", <<>>, "null"), Choice(B, "", <<>>, "null") >>
ChoicesRole == << Choice(<<>>, "assistant", <<>>, "null") >>
ChoicesFinish == << Choice(<<>>, "", <<>>, "stop") >>
MsgA == << Choice(<<>>, "", A, "stop") >>
MsgAB == << Choice(<<>>, "", A, "stop"), Choice(<<>>, "", B, "stop") >>
MsgEmptyThenB == << Choice(<<>>, "", <<>>, "stop"), Choice(<<>>, "", B, "stop") >>

\* the lines a streaming body is made of
EmptyLine == Line("", "", <<>>, 0)
CommentLine == Line(": ", "ping", <<>>, 6)
NoSpaceLine == Line("data:", "{object}", ChoicesA, 60)
DoneLine == Line("data: ", "[DONE]", <<>>, 12)
BadLine == Line("data: ", "{not json", <<>>, 15)
BadTypeLine == Line("data: ", "{\"choices\":\"x\"}", <<>>, 21)
ChunkA == Line("data: ", "{object}", ChoicesA, 60)
ChunkB == Line("data: ", "{object}", ChoicesB, 60)
ChunkAB == Line("data: ", "{object}", ChoicesAB, 100)
ChunkRole == Line("data: ", "{object}", ChoicesRole, 60)
ChunkFinish == Line("data: ", "{object}", ChoicesFinish, 60)
ChunkNoChoices == Line("data: ", "{object}", <<>>, 30)
BigChunkA == Line("data: ", "{object}", ChoicesA, MaxScanTokenSize)
BigBadLine == Line("data: ", "{not json", <<>>, MaxScanTokenSize)

StreamLines ==
    { EmptyLine, CommentLine, NoSpaceLine, DoneLine, BadLine, BadTypeLine,
      ChunkA, ChunkB, ChunkAB, ChunkRole, ChunkFinish, ChunkNoChoices,
      BigChunkA, BigBadLine }

SeqsUpTo(S, n) == UNION { [1..k -> S] : k \in 0..n }

Min(a, b) == IF a < b THEN a ELSE b

\* Message{Role, Content}
Message(role, content) == [role |-> role, content |-> content]

\* ChatOptions; Temperature in hundredths
ChatOptions(temp, tokens, stream, history) ==
    [Temperature |-> temp, MaxTokens |-> tokens, Stream |-> stream,
     History |-> history]

\* DefaultChatOptions(): 0.2, 4096, stream
DefaultTemperature == 20
DefaultMaxTokens == 4096
DefaultChatOptions == ChatOptions(DefaultTemperature, DefaultMaxTokens, TRUE, <<>>)

\* the part of ChatOptions that OpenAIClient.Chat reads beside Stream
ClientOpts(o) ==
    [Temperature |-> o.Temperature, MaxTokens |-> o.MaxTokens, History |-> o.History]

\* no call of the model is under way
NoAsk == [method |-> "none", question |-> <<>>, fileName |-> <<>>,
          fileContent |-> <<>>, options |-> <<>>, hasDefaults |-> FALSE,
          defaults |-> DefaultChatOptions]
NoFacade == ask = NoAsk /\ fpc = "off"

\* no model manager was created
NoFresh == [inited |-> FALSE, configs |-> <<>>, defaultModel |-> ""]
\* the caller holds no config, and the manager was not called
NoHeld == [has |-> FALSE, name |-> "", config |-> <<>>]
NoCall == [op |-> "none", name |-> "", defaultEnabled |-> FALSE]
NoManager ==
    /\ configs = <<>>
    /\ models = <<>>
    /\ defaultModel = ""
    /\ configFile = [exists |-> FALSE, configs |-> <<>>]
    /\ mpc = "off"
    /\ merr = "nil"
    /\ fresh = NoFresh
    /\ held = NoHeld
    /\ mlast = NoCall
\* no command runs
NoCommand == [cmd |-> "none", args |-> <<>>, noHistory |-> FALSE, readable |-> FALSE]
NoCLI ==
    /\ cpc = "off"
    /\ command = NoCommand
    /\ stderr = <<>>
    /\ exitCode = -1
    /\ session = <<>>
\* askMultiModels does not run
NoMulti ==
    /\ modelNames = <<>>
    /\ mainpc = "off"
    /\ wpc = <<>>
    /\ wres = <<>>
    /\ wg = 0
    /\ responsesCh = <<>>
    /\ chClosed = 0
    /\ closerpc = "off"
    /\ received = <<>>
\* nothing runs outside of the models
\* no process uses the history manager
Procs == {1, 2}
NoSession == [ID |-> [prefix |-> "", name |-> 0], Messages |-> <<>>]
NoHistoryCall == [op |-> "none", id |-> NoSession.ID, role |-> "", content |-> "",
                  err |-> "nil"]
NoHistory ==
    /\ hcur = [p \in Procs |-> NoSession]
    /\ curFile = NoSession
    /\ sessFiles = <<>>
    /\ hpc = [p \in Procs |-> "absent"]
    /\ hlast = NoHistoryCall
    /\ hgen = 0
\* CreateModel is not called on its own
NoFactory == [pc |-> "off", name |-> <<>>, url |-> <<>>, type |-> "", err |-> "nil",
              question |-> <<>>, reply |-> <<>>]
NoApp == NoManager /\ NoCLI /\ NoMulti /\ NoHistory /\ factory = NoFactory

\* a call of OpenAIClient.Chat made directly, as the client's tests make it
DirectCall ==
    /\ messages = << Message("user", <<"Hello">>) >>
    /\ opts = ClientOpts(ChatOptions(70, 100, FALSE, <<>>))
    /\ request = [built |-> FALSE, messages |-> <<>>, temperature |-> 0,
                  max_tokens |-> 0, stream |-> FALSE]
    /\ cancelled = "no"
    /\ bodyClosed = FALSE

\* the return path on which the body stays open
BodyClosedAt_DoneOnly(next) == next = "done"

\* ------------------------------------------------- handleStreamResponse
\* defer resp.Body.Close(): the body is closed when Chat returns, on either
\* way out
BodyClosedAt(next) == next \in {"done", "failed"}

\* strings.HasPrefix(line, "data: ")
HasDataPrefix(line) == line.pre = "data: "

\* strings.TrimPrefix(line, "data: ")
TrimDataPrefix(line) == [payload |-> line.payload, choices |-> line.choices]

\* data == "[DONE]"
IsDone(data) == data.payload = "[DONE]"

\* json.Unmarshal([]byte(data), &chunk): a JSON object or null decodes into
\* the chunk struct; anything else, and a field of the wrong type, is an error
Unmarshal(data) ==
    CASE data.payload = "{object}" -> [ok |-> TRUE, choices |-> data.choices]
      [] data.payload = "null" -> [ok |-> TRUE, choices |-> <<>>]
      [] OTHER -> [ok |-> FALSE, choices |-> <<>>]

\* if len(chunk.Choices) > 0 { content := chunk.Choices[0].Delta.Content ...
ChunkContent(chunk) ==
    IF Len(chunk.choices) > 0 THEN chunk.choices[1].delta ELSE <<>>

\* fullContent.WriteString(content)
WriteString(builder, content) == builder \o content

\* the lines before the point where reading stops: the first line that does
\* not fit the scanner's buffer, or the failure of the underlying reader
TooLong(line) == line.bytes >= MaxScanTokenSize

Readable == IF failAt = -1 THEN Len(body) ELSE failAt

FirstTooLong ==
    IF \E i \in 1..Len(body) : TooLong(body[i])
    THEN CHOOSE i \in 1..Len(body) :
             TooLong(body[i]) /\ \A j \in 1..(i - 1) : ~TooLong(body[j])
    ELSE Len(body) + 1

ReadLimit == Min(Readable, FirstTooLong - 1)

\* what ends the scan at ReadLimit
EndKind ==
    IF FirstTooLong <= Readable THEN "toolong"
    ELSE IF failAt = -1 THEN "EOF" ELSE "read"

\* scanner.Scan(), the Read of more input: the reader hands over any number
\* of further lines, and reports EOF or its failure together with the last of
\* them or on a later call; a line that does not fit the buffer is
\* ErrTooLong once everything before it has been returned.  The piece of a
\* line that a failing reader cuts off is returned as a last token: a whole
\* line without its newline is counted in failAt, any other piece is not a
\* chunk and adds no text, and is left out.
ScanRead ==
    /\ spc = "scan"
    /\ pos = avail
    /\ serr = "nil"
    /\ \E k \in avail..ReadLimit :
         \E e \in {"nil", EndKind} :
            /\ k > avail \/ e # "nil"
            /\ e # "nil" => k = ReadLimit
            /\ e = "toolong" => k = avail
            /\ avail' = k
            /\ serr' = e
    /\ UNCHANGED <<chatVars, body, failAt, spc, pos, brk, fullContent, stdout,
                   result, err>>
    /\ UNCHANGED <<argVars, request, cancelled, bodyClosed, outerVars>>

\* one iteration of the loop on a line that is empty or is not a data line
LineSkip ==
    /\ spc = "scan"
    /\ pos < avail
    /\ LET line == body[pos + 1] IN
         line = EmptyLine \/ ~HasDataPrefix(line)
    /\ pos' = pos + 1
    /\ UNCHANGED <<chatVars, body, failAt, spc, avail, serr, brk, fullContent,
                   stdout, result, err>>
    /\ UNCHANGED <<argVars, request, cancelled, bodyClosed, outerVars>>

\* variant: the marker is skipped like any other line and the loop goes on
DoneNext_Continue == "scan"

\* break: the statement after the loop comes next
DoneNext == "exit"

\* one iteration on the end marker: break
LineDone ==
    /\ spc = "scan"
    /\ pos < avail
    /\ LET line == body[pos + 1] IN
         /\ line # EmptyLine
         /\ HasDataPrefix(line)
         /\ IsDone(TrimDataPrefix(line))
    /\ pos' = pos + 1
    /\ brk' = TRUE
    /\ spc' = DoneNext
    /\ UNCHANGED <<chatVars, body, failAt, avail, serr, fullContent, stdout,
                   result, err>>
    /\ UNCHANGED <<argVars, request, cancelled, bodyClosed, outerVars>>

\* one iteration on a data line that json.Unmarshal rejects: continue
LineBad ==
    /\ spc = "scan"
    /\ pos < avail
    /\ LET line == body[pos + 1] IN
         /\ line # EmptyLine
         /\ HasDataPrefix(line)
         /\ ~IsDone(TrimDataPrefix(line))
         /\ ~Unmarshal(TrimDataPrefix(line)).ok
    /\ pos' = pos + 1
    /\ UNCHANGED <<chatVars, body, failAt, spc, avail, serr, brk, fullContent,
                   stdout, result, err>>
    /\ UNCHANGED <<argVars, request, cancelled, bodyClosed, outerVars>>

\* one iteration on a data line that decodes into a chunk
LineChunk ==
    /\ spc = "scan"
    /\ pos < avail
    /\ LET line == body[pos + 1]
           data == TrimDataPrefix(line)
           content == ChunkContent(Unmarshal(data))
       IN
         /\ line # EmptyLine
         /\ HasDataPrefix(line)
         /\ ~IsDone(data)
         /\ Unmarshal(data).ok
         /\ IF content # <<>>
            THEN /\ fullContent' = WriteString(fullContent, content)
                 /\ stdout' = stdout \o content
            ELSE UNCHANGED <<fullContent, stdout>>
    /\ pos' = pos + 1
    /\ UNCHANGED <<chatVars, body, failAt, spc, avail, serr, brk, result, err>>
    /\ UNCHANGED <<argVars, request, cancelled, bodyClosed, outerVars>>

\* scanner.Scan() returns false: nothing buffered and the scanner has stopped
ScanEnd ==
    /\ spc = "scan"
    /\ pos = avail
    /\ serr # "nil"
    /\ spc' = "exit"
    /\ UNCHANGED <<chatVars, body, failAt, avail, serr, pos, brk, fullContent,
                   stdout, result, err>>
    /\ UNCHANGED <<argVars, request, cancelled, bodyClosed, outerVars>>

\* scanner.Err(): nil for io.EOF
ScannerErr == IF serr \in {"nil", "EOF"} THEN "nil" ELSE serr

\* variant: the text accumulated so far is dropped when the scan failed
StreamReturn_DropsText ==
    IF ScannerErr # "nil"
    THEN [text |-> <<>>, err |-> ErrOf("scan")]
    ELSE [text |-> fullContent, err |-> NoErr]

\* the return value of handleStreamResponse
StreamReturn ==
    IF ScannerErr # "nil"
    THEN [text |-> fullContent, err |-> ErrOf("scan")]
    ELSE [text |-> fullContent, err |-> NoErr]

\* after the loop: if err := scanner.Err() ... return
StreamExit ==
    /\ spc = "exit"
    /\ result' = StreamReturn.text
    /\ err' = StreamReturn.err
    /\ stdout' = IF StreamReturn.err = NoErr THEN stdout \o <<"\n">> ELSE stdout
    /\ spc' = "ret"
    /\ pc' = IF pc = "streaming"
             THEN (IF StreamReturn.err = NoErr THEN "done" ELSE "failed")
             ELSE pc
    /\ bodyClosed' = (pc = "streaming" /\ BodyClosedAt(pc'))
    /\ UNCHANGED <<cfgURL, optStream, optTempOK, net, reqURL, requests, peerURL,
                   peerReq, body, failAt, avail, serr, pos, brk, fullContent>>
    /\ UNCHANGED <<argVars, request, cancelled, outerVars>>

\* ------------------------------------------- handleStreamResponse on a reader
FailPoints(b) == {-1} \cup (0..Len(b))

InitStream ==
    /\ cfgURL = <<>>
    /\ optStream = TRUE
    /\ optTempOK = TRUE
    /\ net = "none"
    /\ body \in SeqsUpTo(StreamLines, MaxLines)
    /\ failAt \in FailPoints(body)
    /\ pc = "direct"
    /\ reqURL = <<>>
    /\ requests = 0
    /\ peerURL = <<>>
    /\ peerReq = <<>>
    /\ spc = "scan"
    /\ avail = 0
    /\ serr = "nil"
    /\ pos = 0
    /\ brk = FALSE
    /\ fullContent = <<>>
    /\ stdout = <<>>
    /\ result = <<>>
    /\ err = NoErr
    /\ DirectCall
    /\ NoFacade
    /\ NoApp

NextStream ==
    \/ ScanRead
    \/ LineSkip
    \/ LineDone
    \/ LineBad
    \/ LineChunk
    \/ ScanEnd
    \/ StreamExit

SpecStream == InitStream /\ [][NextStream]_vars

\* -------------------------------------------------------- OpenAIClient.Chat
Separator == "/"
ChatPath == <<"v1", "/", "chat", "/", "completions">>

\* strings.HasSuffix(apiURL, "/")
HasSlashSuffix(url) == Len(url) > 0 /\ url[Len(url)] = Separator

\* variant: the separator is appended without looking at the end of the URL
EndpointURL_AlwaysSeparator(base) == base \o <<Separator>> \o ChatPath

\* variant: the path is appended without a separator
EndpointURL_NoSeparator(base) == base \o ChatPath

\* apiURL := c.apiURL; if !strings.HasSuffix(apiURL, "/") { apiURL += "/" };
\* apiURL += "v1/chat/completions"
EndpointURL(base) ==
    (IF ~HasSlashSuffix(base) THEN base \o <<Separator>> ELSE base) \o ChatPath

\* http.NewRequestWithContext rejects a URL that url.Parse rejects, such as
\* one holding a control character
ControlChar == "<DEL>"
ValidURL(url) == \A i \in 1..Len(url) : url[i] # ControlChar

\* variant: only a server error is a failure
IsFailureStatus_ServerOnly(code) == code >= 500

\* variant: a failure starts at 400
IsFailureStatus_From400(code) == code >= 400

\* resp.StatusCode != http.StatusOK
IsFailureStatus(code) == code # StatusOK

\* body, _ := io.ReadAll(resp.Body): what could be read, the error dropped
ReadAll(b, fail) == IF fail = -1 THEN b ELSE SubSeq(b, 1, fail)

\* fmt.Errorf("API request failed, status code: %d, response: %s", ...)
APIError(code, b) == [kind |-> "api", status |-> code, body |-> b]

\* req := OpenAIRequest{...}: the messages as they were passed, the settings
\* taken from opts (max_tokens and stream are left out of the JSON text when
\* they are zero and false, which decodes to the same values)
NoRequest == [built |-> FALSE, messages |-> <<>>, temperature |-> 0,
              max_tokens |-> 0, stream |-> FALSE]
NewRequest(msgs, o, stream) ==
    [built |-> TRUE, messages |-> msgs, temperature |-> o.Temperature,
     max_tokens |-> o.MaxTokens, stream |-> stream]

\* Chat up to the creation of the request: json.Marshal(req), the endpoint
\* URL, http.NewRequestWithContext, the headers
ChatPrepare ==
    /\ pc = "idle"
    /\ IF ~optTempOK
       THEN /\ pc' = "failed"
            /\ err' = ErrOf("serialize")
            /\ UNCHANGED <<reqURL, request>>
       ELSE IF ~ValidURL(EndpointURL(cfgURL))
       THEN /\ pc' = "failed"
            /\ err' = ErrOf("request")
            /\ request' = NewRequest(messages, opts, optStream)
            /\ UNCHANGED reqURL
       ELSE /\ pc' = "sending"
            /\ reqURL' = EndpointURL(cfgURL)
            /\ request' = NewRequest(messages, opts, optStream)
            /\ UNCHANGED err
    /\ UNCHANGED <<cfgURL, optStream, optTempOK, net, requests, peerURL, peerReq,
                   body, failAt, spc, scanVars, result>>
    /\ UNCHANGED <<argVars, cancelled, bodyClosed, outerVars>>

\* the same step of a second client, configured with peerURL
PeerPrepare ==
    /\ peerReq = <<>>
    /\ peerReq' = EndpointURL(peerURL)
    /\ UNCHANGED <<cfgURL, optStream, optTempOK, net, pc, reqURL, requests,
                   peerURL, body, failAt, spc, scanVars, result, err>>
    /\ UNCHANGED <<argVars, request, cancelled, bodyClosed, outerVars>>

\* a second attempt after a failed request
AfterTransportError_Retry(n) == IF n < 2 THEN "sending" ELSE "failed"

\* if err != nil { return "", fmt.Errorf("failed to send request: %w", err) }:
\* the call is over after the n-th request failed, whatever n is
AfterTransportError(n) == "failed"

\* c.httpClient.Do(httpReq) fails
DoTransportError ==
    /\ pc = "sending"
    /\ net.kind = "error"
    /\ requests' = requests + 1
    /\ pc' = AfterTransportError(requests')
    /\ err' = ErrOf("transport")
    /\ UNCHANGED <<cfgURL, optStream, optTempOK, net, reqURL, peerURL, peerReq,
                   body, failAt, spc, scanVars, result>>
    /\ UNCHANGED <<argVars, request, cancelled, bodyClosed, outerVars>>

\* Do returns a response whose status is not 200
DoAPIError ==
    /\ pc = "sending"
    /\ net.kind = "response"
    /\ IsFailureStatus(net.status)
    /\ requests' = requests + 1
    /\ pc' = "failed"
    /\ err' = APIError(net.status, ReadAll(body, failAt))
    /\ bodyClosed' = BodyClosedAt(pc')
    /\ UNCHANGED <<cfgURL, optStream, optTempOK, net, reqURL, peerURL, peerReq,
                   body, failAt, spc, scanVars, result>>
    /\ UNCHANGED <<argVars, request, cancelled, outerVars>>

\* the other rule: the response's Content-Type chooses the decoder
UseStreamDecoder_ByContentType(stream, ctype) == ctype = "text/event-stream"

\* if opts.Stream: the body goes to handleStreamResponse when the call asked
\* for a stream; the response's headers are not looked at
UseStreamDecoder(stream, ctype) == stream

\* Do returns 200 and opts.Stream is set: handleStreamResponse(resp.Body)
DoStream ==
    /\ pc = "sending"
    /\ net.kind = "response"
    /\ ~IsFailureStatus(net.status)
    /\ UseStreamDecoder(optStream, net.ctype)
    /\ requests' = requests + 1
    /\ pc' = "streaming"
    /\ spc' = "scan"
    /\ UNCHANGED <<cfgURL, optStream, optTempOK, net, reqURL, peerURL, peerReq,
                   body, failAt, scanVars, result, err>>
    /\ UNCHANGED <<argVars, request, cancelled, bodyClosed, outerVars>>

\* Do returns 200 and opts.Stream is not set: handleNormalResponse(resp.Body)
DoNormal ==
    /\ pc = "sending"
    /\ net.kind = "response"
    /\ ~IsFailureStatus(net.status)
    /\ ~UseStreamDecoder(optStream, net.ctype)
    /\ requests' = requests + 1
    /\ pc' = "awaiting"
    /\ UNCHANGED <<cfgURL, optStream, optTempOK, net, reqURL, peerURL, peerReq,
                   body, failAt, spc, scanVars, result, err>>
    /\ UNCHANGED <<argVars, request, cancelled, bodyClosed, outerVars>>

\* ------------------------------------------------- handleNormalResponse
\* json.NewDecoder(respBody).Decode(&apiResp): white space is skipped, the
\* first value is decoded into OpenAIResponse and what follows it is not read;
\* a read failure or the end of the body before the value, a text that is not
\* JSON and a field of the wrong type are errors
FirstValue(b) ==
    IF \E i \in 1..Len(b) : b[i] # EmptyLine
    THEN CHOOSE i \in 1..Len(b) :
             b[i] # EmptyLine /\ \A j \in 1..(i - 1) : b[j] = EmptyLine
    ELSE 0

Decode(b, fail) ==
    LET i == FirstValue(b) IN
    IF i = 0 \/ (fail # -1 /\ i > fail)
    THEN [ok |-> FALSE, choices |-> <<>>]
    ELSE IF b[i].pre = "" /\ b[i].payload = "{object}"
    THEN [ok |-> TRUE, choices |-> b[i].choices]
    ELSE [ok |-> FALSE, choices |-> <<>>]

\* variant: the last choice is returned instead of the first
NormalReturn_LastChoice(b, fail) ==
    LET apiResp == Decode(b, fail) IN
    IF ~apiResp.ok THEN [text |-> <<>>, err |-> ErrOf("parse")]
    ELSE IF Len(apiResp.choices) = 0 THEN [text |-> <<>>, err |-> ErrOf("empty")]
    ELSE [text |-> apiResp.choices[Len(apiResp.choices)].message, err |-> NoErr]

\* variant: the number of choices is not checked, Choices[0] of an empty
\* list panics
NormalReturn_NoEmptyCheck(b, fail) ==
    LET apiResp == Decode(b, fail) IN
    IF ~apiResp.ok THEN [text |-> <<>>, err |-> ErrOf("parse")]
    ELSE IF Len(apiResp.choices) = 0 THEN [text |-> <<>>, err |-> ErrOf("panic")]
    ELSE [text |-> apiResp.choices[1].message, err |-> NoErr]

\* the return value of handleNormalResponse
NormalReturn(b, fail) ==
    LET apiResp == Decode(b, fail) IN
    IF ~apiResp.ok THEN [text |-> <<>>, err |-> ErrOf("parse")]
    ELSE IF Len(apiResp.choices) = 0 THEN [text |-> <<>>, err |-> ErrOf("empty")]
    ELSE [text |-> apiResp.choices[1].message, err |-> NoErr]

HandleNormal ==
    /\ pc = "awaiting"
    /\ result' = NormalReturn(body, failAt).text
    /\ err' = NormalReturn(body, failAt).err
    /\ pc' = IF NormalReturn(body, failAt).err = NoErr THEN "done" ELSE "failed"
    /\ bodyClosed' = BodyClosedAt(pc')
    /\ UNCHANGED <<cfgURL, optStream, optTempOK, net, reqURL, requests, peerURL,
                   peerReq, body, failAt, spc, scanVars>>
    /\ UNCHANGED <<argVars, request, cancelled, outerVars>>

\* ------------------------------------------------------- one call of Chat
Host == "http://h"
URLSyms == {Host, Separator, "api"}

Statuses == {200, 201, 204, 304, 400, 404, 500}

\* the Content-Type header of a response
ContentTypes == {"application/json", "text/event-stream"}

\* what httpClient.Do returns
TransportFailure == [kind |-> "error", status |-> 0, ctype |-> ""]
Response(status, ctype) == [kind |-> "response", status |-> status, ctype |-> ctype]

Outcomes ==
    {TransportFailure}
        \cup {Response(StatusOK, t) : t \in ContentTypes}
        \cup {Response(s, "application/json") : s \in Statuses \ {StatusOK}}

EnvA == Line("", "{object}", MsgA, 300)
EnvAB == Line("", "{object}", MsgAB, 400)
EnvEmptyThenB == Line("", "{object}", MsgEmptyThenB, 400)
EnvNoChoices == Line("", "{object}", <<>>, 200)
EnvBadType == Line("", "{\"choices\":\"x\"}", <<>>, 15)
NotJSON == Line("", "<html>", <<>>, 6)

ChatLines ==
    { EmptyLine, EnvA, EnvAB, EnvEmptyThenB, EnvNoChoices, EnvBadType, NotJSON,
      ChunkA, BadLine, DoneLine }

ChatURLs == { <<Host>>, <<Host, Separator>>, <<Host, ControlChar>> }

InitChat ==
    /\ cfgURL \in ChatURLs
    /\ optStream \in BOOLEAN
    /\ optTempOK \in BOOLEAN
    /\ net \in Outcomes
    /\ body \in SeqsUpTo(ChatLines, MaxBodyLines)
    /\ failAt \in FailPoints(body)
    /\ pc = "idle"
    /\ reqURL = <<>>
    /\ requests = 0
    /\ peerURL = <<>>
    /\ peerReq = <<>>
    /\ spc = "off"
    /\ avail = 0
    /\ serr = "nil"
    /\ pos = 0
    /\ brk = FALSE
    /\ fullContent = <<>>
    /\ stdout = <<>>
    /\ result = <<>>
    /\ err = NoErr
    /\ DirectCall
    /\ NoFacade
    /\ NoApp

NextChat ==
    \/ ChatPrepare
    \/ DoTransportError
    \/ DoAPIError
    \/ DoStream
    \/ DoNormal
    \/ HandleNormal
    \/ ScanRead
    \/ LineSkip
    \/ LineDone
    \/ LineBad
    \/ LineChunk
    \/ ScanEnd
    \/ StreamExit

SpecChat == InitChat /\ [][NextChat]_vars

\* --------------------------- two clients whose base URLs differ by a final "/"
InitURL ==
    /\ cfgURL \in SeqsUpTo(URLSyms, MaxURLLen)
    /\ peerURL = cfgURL \o <<Separator>>
    /\ optStream \in BOOLEAN
    /\ optTempOK = TRUE
    /\ net = TransportFailure
    /\ body = <<>>
    /\ failAt = -1
    /\ pc = "idle"
    /\ reqURL = <<>>
    /\ requests = 0
    /\ peerReq = <<>>
    /\ spc = "off"
    /\ avail = 0
    /\ serr = "nil"
    /\ pos = 0
    /\ brk = FALSE
    /\ fullContent = <<>>
    /\ stdout = <<>>
    /\ result = <<>>
    /\ err = NoErr
    /\ DirectCall
    /\ NoFacade
    /\ NoApp

NextURL ==
    \/ ChatPrepare
    \/ PeerPrepare

SpecURL == InitURL /\ [][NextURL]_vars

\* ---------------------------------------------- a call whose ctx is cancelled
\* the caller cancels ctx while Do has not returned or a decoder reads the
\* body. A Do that has not returned fails with the context's error, unless the
\* response had arrived; the reads of the body that follow hand over what had
\* arrived, and then fail.
Cancel ==
    /\ cancelled = "no"
    /\ pc \in {"sending", "awaiting", "streaming"}
    /\ cancelled' = pc
    /\ \/ /\ pc = "sending"
          /\ net' = TransportFailure
          /\ UNCHANGED failAt
       \/ /\ pc # "streaming" \/ serr = "nil"
          /\ net.kind = "response"
          /\ failAt' \in {failAt} \cup (avail..Readable)
          /\ UNCHANGED net
       \/ /\ pc = "streaming" /\ serr # "nil"
          /\ UNCHANGED <<net, failAt>>
    /\ UNCHANGED <<cfgURL, optStream, optTempOK, pc, reqURL, requests, peerURL,
                   peerReq, body, spc, scanVars, result, err, argVars, request,
                   bodyClosed, outerVars>>

CancelLines == { EmptyLine, EnvA, ChunkA, ChunkB, BadLine, DoneLine }

InitCancel ==
    /\ cfgURL = <<Host>>
    /\ optStream \in BOOLEAN
    /\ optTempOK = TRUE
    /\ net \in { TransportFailure, Response(200, "text/event-stream"),
                 Response(500, "application/json") }
    /\ body \in SeqsUpTo(CancelLines, MaxBodyLines)
    /\ failAt \in FailPoints(body)
    /\ pc = "idle"
    /\ reqURL = <<>>
    /\ requests = 0
    /\ peerURL = <<>>
    /\ peerReq = <<>>
    /\ spc = "off"
    /\ avail = 0
    /\ serr = "nil"
    /\ pos = 0
    /\ brk = FALSE
    /\ fullContent = <<>>
    /\ stdout = <<>>
    /\ result = <<>>
    /\ err = NoErr
    /\ DirectCall
    /\ NoFacade
    /\ NoApp

NextCancel ==
    \/ Cancel
    \/ ChatPrepare
    \/ DoTransportError
    \/ DoAPIError
    \/ DoStream
    \/ DoNormal
    \/ HandleNormal
    \/ ScanRead
    \/ LineSkip
    \/ LineDone
    \/ LineBad
    \/ LineChunk
    \/ ScanEnd
    \/ StreamExit

SpecCancel == InitCancel /\ [][NextCancel]_vars

\* the steps that wait for the server: Do, and the reads of the body
WaitsForServer ==
    \/ DoTransportError
    \/ DoAPIError
    \/ DoStream
    \/ DoNormal
    \/ HandleNormal
    \/ ScanRead

\* the steps that the call takes on its own
RunsAlone ==
    \/ ChatPrepare
    \/ LineSkip
    \/ LineDone
    \/ LineBad
    \/ LineChunk
    \/ ScanEnd
    \/ StreamExit

\* the call's own steps are taken; a step that waits for the server is
\* certain to end only once ctx is cancelled, because Do and the body's Read
\* return when ctx is done
FairSpecCancel ==
    /\ SpecCancel
    /\ WF_vars(RunsAlone)
    /\ WF_vars(cancelled # "no" /\ WaitsForServer)

\* ------------------------------------- OpenAIModel.Chat and ChatWithFile
\* a ChatOption, by the constructor that made it
WithTemperature(temp) ==
    [name |-> "WithTemperature", temp |-> temp, tokens |-> 0, stream |-> FALSE,
     history |-> <<>>]
WithMaxTokens(tokens) ==
    [name |-> "WithMaxTokens", temp |-> 0, tokens |-> tokens, stream |-> FALSE,
     history |-> <<>>]
WithStream(stream) ==
    [name |-> "WithStream", temp |-> 0, tokens |-> 0, stream |-> stream,
     history |-> <<>>]
WithHistory(msgs) ==
    [name |-> "WithHistory", temp |-> 0, tokens |-> 0, stream |-> FALSE,
     history |-> msgs]

\* option(opts): each option overwrites its own field
ApplyOption(option, o) ==
    CASE option.name = "WithTemperature" -> [o EXCEPT !.Temperature = option.temp]
      [] option.name = "WithMaxTokens" -> [o EXCEPT !.MaxTokens = option.tokens]
      [] option.name = "WithStream" -> [o EXCEPT !.Stream = option.stream]
      [] option.name = "WithHistory" -> [o EXCEPT !.History = option.history]

\* for _, option := range options { option(opts) }
RECURSIVE ApplyOptions(_, _)
ApplyOptions(options, o) ==
    IF options = <<>> THEN o
    ELSE ApplyOptions(Tail(options), ApplyOption(Head(options), o))

\* the options OpenAIModel.Chat starts from
ChatStartOptions(a) == DefaultChatOptions

\* the options OpenAIModel.ChatWithFile starts from: a copy of the config's
\* DefaultChatOptions when the config has them
FileStartOptions(a) == IF a.hasDefaults THEN a.defaults ELSE DefaultChatOptions

\* the messages OpenAIModel.Chat sends
ChatMessages(o, question) ==
    (IF Len(o.History) > 0 THEN o.History ELSE <<>>)
        \o << Message("user", question) >>

\* the other placement of the three parts in a message
FilePrompt_QuestionFirst(fileName, fileContent, question) ==
    <<"question: ">> \o question \o <<"\n\nfile name: ">> \o fileName
        \o <<"\n\nfile content:\n">> \o fileContent

\* fmt.Sprintf("file name: %s\n\nfile content:\n%s\n\nquestion: %s", ...)
FilePrompt(fileName, fileContent, question) ==
    <<"file name: ">> \o fileName \o <<"\n\nfile content:\n">> \o fileContent
        \o <<"\n\nquestion: ">> \o question

\* the messages OpenAIModel.ChatWithFile sends
FileMessages(o, a) ==
    << Message("user", FilePrompt(a.fileName, a.fileContent, a.question)) >>

\* OpenAIModel.Chat up to the call of client.Chat
ModelChat ==
    /\ fpc = "call"
    /\ ask.method = "Chat"
    /\ LET o == ApplyOptions(ask.options, ChatStartOptions(ask))
       IN /\ messages' = ChatMessages(o, ask.question)
          /\ opts' = ClientOpts(o)
          /\ optStream' = o.Stream
    /\ fpc' = "client"
    /\ pc' = "idle"
    /\ UNCHANGED <<cfgURL, optTempOK, net, body, failAt, reqURL, requests,
                   peerURL, peerReq, spc, scanVars, result, err, request,
                   cancelled, bodyClosed, ask, appVars>>

\* OpenAIModel.ChatWithFile up to the call of client.Chat
ModelChatWithFile ==
    /\ fpc = "call"
    /\ ask.method = "ChatWithFile"
    /\ LET o == ApplyOptions(ask.options, FileStartOptions(ask))
       IN /\ messages' = FileMessages(o, ask)
          /\ opts' = ClientOpts(o)
          /\ optStream' = o.Stream
    /\ fpc' = "client"
    /\ pc' = "idle"
    /\ UNCHANGED <<cfgURL, optTempOK, net, body, failAt, reqURL, requests,
                   peerURL, peerReq, spc, scanVars, result, err, request,
                   cancelled, bodyClosed, ask, appVars>>

\* return client.Chat(ctx, messages, opts): the client's result as it is
ModelReturn ==
    /\ fpc = "client"
    /\ pc \in {"done", "failed"}
    /\ fpc' = "ret"
    /\ UNCHANGED <<chatVars, body, failAt, spc, scanVars, result, err, argVars,
                   request, cancelled, bodyClosed, ask, appVars>>

HistUser == Message("user", <<"h1">>)
HistAssistant == Message("assistant", <<"h2">>)
Histories == { <<>>, <<HistUser>>, <<HistUser, HistAssistant>> }

Options ==
    { WithTemperature(70), WithMaxTokens(100), WithStream(FALSE), WithStream(TRUE) }
        \cup { WithHistory(h) : h \in Histories }

\* the DefaultChatOptions a model's config can carry
ConfigDefaults == { ChatOptions(50, 100, FALSE, <<>>), ChatOptions(50, 100, TRUE, <<>>) }

\* ModelConfig.DefaultChatOptions: nil, or options
Configs ==
    { [hasDefaults |-> FALSE, defaults |-> DefaultChatOptions] }
        \cup { [hasDefaults |-> TRUE, defaults |-> d] : d \in ConfigDefaults }

Asks ==
    { [method |-> m, question |-> <<"q">>, fileName |-> f, fileContent |-> c,
       options |-> os, hasDefaults |-> cfg.hasDefaults, defaults |-> cfg.defaults] :
        m \in {"Chat", "ChatWithFile"},
        f \in { <<"a.go">> },
        c \in { <<>>, <<"l1", "l2">> },
        os \in SeqsUpTo(Options, MaxOptions),
        cfg \in Configs }

\* the answers of the server of the model's tests, and some others
AskOutcomes ==
    { TransportFailure, Response(200, "application/json"),
      Response(500, "application/json") }
AskBodies ==
    { <<EnvA>>, <<EnvAB>>, <<ChunkA, ChunkB, DoneLine>>, <<EmptyLine, BadLine, ChunkA>> }

InitAsk ==
    /\ ask \in Asks
    /\ fpc = "call"
    /\ cfgURL = <<Host>>
    /\ optStream = FALSE
    /\ optTempOK = TRUE
    /\ net \in AskOutcomes
    /\ body \in AskBodies
    /\ failAt = -1
    /\ pc = "new"
    /\ reqURL = <<>>
    /\ requests = 0
    /\ peerURL = <<>>
    /\ peerReq = <<>>
    /\ spc = "off"
    /\ avail = 0
    /\ serr = "nil"
    /\ pos = 0
    /\ brk = FALSE
    /\ fullContent = <<>>
    /\ stdout = <<>>
    /\ result = <<>>
    /\ err = NoErr
    /\ messages = <<>>
    /\ opts = ClientOpts(DefaultChatOptions)
    /\ request = NoRequest
    /\ cancelled = "no"
    /\ bodyClosed = FALSE
    /\ NoApp

NextAsk ==
    \/ ModelChat
    \/ ModelChatWithFile
    \/ ModelReturn
    \/ ChatPrepare
    \/ DoTransportError
    \/ DoAPIError
    \/ DoStream
    \/ DoNormal
    \/ HandleNormal
    \/ ScanRead
    \/ LineSkip
    \/ LineDone
    \/ LineBad
    \/ LineChunk
    \/ ScanEnd
    \/ StreamExit

SpecAsk == InitAsk /\ [][NextAsk]_vars

\* ===================================================== properties of the client
\* The vocabulary of the properties, stated on the lines of the body and not
\* through the operators of the decoder.
IsDataLine(l) == l.pre = "data: "
IsMarker(l) == l.pre = "data: " /\ l.payload = "[DONE]"
IsChunkLine(l) == IsDataLine(l) /\ l.payload \in {"{object}", "null"}
IsUnparsable(l) == IsDataLine(l) /\ ~IsMarker(l) /\ ~IsChunkLine(l)
Fits(l) == l.bytes < 65536
FirstDelta(l) == IF Len(l.choices) = 0 THEN <<>> ELSE l.choices[1].delta

RECURSIVE Deltas(_)
Deltas(ls) ==
    IF ls = <<>> THEN <<>>
    ELSE (IF IsChunkLine(Head(ls)) THEN FirstDelta(Head(ls)) ELSE <<>>)
             \o Deltas(Tail(ls))

MarkerAt(ls) ==
    IF \E i \in 1..Len(ls) : IsMarker(ls[i])
    THEN CHOOSE i \in 1..Len(ls) :
             IsMarker(ls[i]) /\ \A j \in 1..(i - 1) : ~IsMarker(ls[j])
    ELSE Len(ls) + 1

BeforeMarker(ls) == SubSeq(ls, 1, MarkerAt(ls) - 1)

RECURSIVE WithoutUnparsable(_)
WithoutUnparsable(ls) ==
    IF ls = <<>> THEN <<>>
    ELSE IF IsUnparsable(Head(ls)) THEN WithoutUnparsable(Tail(ls))
    ELSE <<Head(ls)>> \o WithoutUnparsable(Tail(ls))

Returned == spc = "ret"

\* C1: for every stream of lines that the reader delivers without failing,
\* handleStreamResponse returns the concatenation, in order and with nothing
\* inserted, of the delta content of the first choice of every data line that
\* parses as a chunk and precedes the first "data: [DONE]" line.
C1_ConcatenatesEveryChunk ==
    (Returned /\ failAt = -1) => result = Deltas(BeforeMarker(body))

\* C2: a data line whose payload does not parse never aborts the decoding and
\* adds nothing: when all other lines fit, the call returns no error and its
\* text is the text of the same stream without the unparsable lines.
C2_UnparsableLinesAreSkipped ==
    (Returned /\ failAt = -1
        /\ \A i \in 1..Len(body) : ~IsUnparsable(body[i]) => Fits(body[i]))
    => (/\ err = NoErr
        /\ result = Deltas(BeforeMarker(WithoutUnparsable(body))))

\* C3: once "data: [DONE]" has been read no further line is read or
\* processed, the accumulated text no longer changes, and the text returned is
\* the text of the lines before the marker.
C3_NothingAfterDone ==
    /\ [][brk => (pos' = pos /\ avail' = avail /\ fullContent' = fullContent)]_vars
    /\ [](brk => (pos = MarkerAt(body) /\ fullContent = Deltas(BeforeMarker(body))))
    /\ []((Returned /\ brk) => result = Deltas(BeforeMarker(body)))

C3_Witness ==
    /\ Returned
    /\ brk
    /\ pos < Len(body)
    /\ Deltas(SubSeq(body, pos + 1, Len(body))) # <<>>
    /\ result # <<>>

\* C4: when the read of the body fails before the marker is reached, the call
\* returns a scan error together with the text of the lines read before the
\* failure: the empty text when nothing was read, the concatenation so far
\* otherwise.
C4_ReadErrorKeepsText ==
    (Returned /\ failAt # -1
        /\ \A i \in 1..failAt : ~IsMarker(body[i]) /\ Fits(body[i]))
    => (/\ err.kind = "scan"
        /\ result = Deltas(SubSeq(body, 1, failAt)))

C4_Witness ==
    /\ Returned
    /\ failAt >= 1
    /\ failAt < Len(body)
    /\ ~brk
    /\ err.kind = "scan"
    /\ result # <<>>

\* a 200 response to a call without stream whose body is one envelope, read
\* in full, with perhaps blank lines around it
GotEnvelope ==
    /\ pc \in {"done", "failed"}
    /\ requests = 1
    /\ net.kind = "response"
    /\ net.status = 200
    /\ ~optStream
    /\ \E i \in 1..Len(body) :
          /\ body[i].pre = "" /\ body[i].payload = "{object}"
          /\ \A j \in 1..Len(body) : j # i => body[j].payload = ""
          /\ failAt = -1 \/ failAt >= i

Envelope == body[CHOOSE i \in 1..Len(body) : body[i].payload = "{object}"]

\* C5: a call without stream that receives a 200 response whose body is a
\* well-formed envelope with at least one choice returns the message content
\* of the first choice and no error, whatever the other choices hold.
C5_FirstChoiceReturned ==
    (GotEnvelope /\ Len(Envelope.choices) >= 1)
    => (/\ pc = "done"
        /\ err = NoErr
        /\ result = Envelope.choices[1].message)

C5_Witness ==
    /\ GotEnvelope
    /\ Len(Envelope.choices) >= 2
    /\ Envelope.choices[2].message # Envelope.choices[1].message
    /\ pc = "done"
    /\ result = Envelope.choices[1].message

\* C6: a call without stream that receives a 200 response whose envelope has
\* no choice fails with the empty-response error: it does not panic and does
\* not succeed with an empty text.
C6_EmptyChoicesIsError ==
    (GotEnvelope /\ Len(Envelope.choices) = 0)
    => (/\ pc = "failed"
        /\ err.kind = "empty"
        /\ result = <<>>)

C6_Witness ==
    /\ GotEnvelope
    /\ Len(Envelope.choices) = 0
    /\ pc = "failed"
    /\ err.kind = "empty"

\* C7: a response with status >= 400 makes Chat fail with an API error that
\* carries the status and the body as far as it could be read, whether or not
\* stream was requested and whatever the body holds; the body is handed to
\* neither decoder.
C7_ErrorStatusIsAPIError ==
    (net.kind = "response" /\ net.status >= 400)
    => (/\ spc = "off"
        /\ pc \notin {"streaming", "awaiting", "done"}
        /\ requests = 1 =>
              /\ pc = "failed"
              /\ err.kind = "api"
              /\ err.status = net.status
              /\ err.body = (IF failAt = -1 THEN body ELSE SubSeq(body, 1, failAt))
              /\ result = <<>>)

C7_Witness ==
    /\ net.kind = "response"
    /\ net.status >= 400
    /\ requests = 1
    /\ optStream
    /\ pc = "failed"
    /\ err.kind = "api"
    /\ Len(err.body) >= 1
    /\ err.body[1].payload = "{object}"

\* C8 as stated: an API error is returned exactly for the responses whose
\* status is outside 200..299.
C8_APIErrorIffNot2xx ==
    (requests = 1 /\ net.kind = "response")
    => (err.kind = "api" <=> (net.status < 200 \/ net.status > 299))

\* C8: an API error is returned exactly for the responses whose status is not
\* 200: a 200 response goes on to the decoding of the body, every other
\* status, the other 2xx included, fails with an API error.
C8_APIErrorIffNot200 ==
    (requests = 1 /\ net.kind = "response")
    => (/\ err.kind = "api" <=> net.status # 200
        /\ net.status # 200 => (pc = "failed" /\ spc = "off")
        /\ net.status = 200 =>
              \/ pc = "streaming"
              \/ pc = "awaiting"
              \/ (pc \in {"done", "failed"} /\ (spc = "ret" <=> optStream)))

C8_Witness ==
    /\ requests = 1
    /\ net.kind = "response"
    /\ net.status = 201
    /\ pc = "failed"
    /\ err.kind = "api"

\* the text "v1/chat/completions" and the separators at the end of a URL
EndpointPath == <<"v1", "/", "chat", "/", "completions">>
EndsWithSeparator(u) == Len(u) > 0 /\ u[Len(u)] = "/"

RECURSIVE StripSeparators(_)
StripSeparators(u) ==
    IF EndsWithSeparator(u) THEN StripSeparators(SubSeq(u, 1, Len(u) - 1)) ELSE u

\* C9: for a base URL B without a final separator, the client configured with
\* B and the client configured with B + "/" create their request for the same
\* URL, B + "/v1/chat/completions".
C9_TrailingSeparatorSameEndpoint ==
    (pc = "sending" /\ peerReq # <<>> /\ ~EndsWithSeparator(cfgURL)
        /\ peerURL = cfgURL \o <<"/">>)
    => (/\ reqURL = peerReq
        /\ reqURL = cfgURL \o <<"/">> \o EndpointPath)

C9_Witness ==
    /\ pc = "sending"
    /\ peerReq # <<>>
    /\ cfgURL # <<>>
    /\ ~EndsWithSeparator(cfgURL)
    /\ peerURL = cfgURL \o <<"/">>
    /\ reqURL = peerReq

\* C10 as stated: the endpoint is the base URL brought to end with exactly
\* one separator, followed by v1/chat/completions, also for a base URL that
\* ends with two or more separators.
C10_ExactlyOneSeparator ==
    pc = "sending" => reqURL = StripSeparators(cfgURL) \o <<"/">> \o EndpointPath

\* C10: the endpoint is the base URL followed by v1/chat/completions, with one
\* separator put between them only when the base URL does not end with one;
\* separators the base URL already ends with are kept as they are, so the
\* base URL ends up with exactly one only when it had none or one.
C10_SeparatorAddedOnlyIfMissing ==
    pc = "sending" =>
        /\ reqURL = (IF EndsWithSeparator(cfgURL) THEN cfgURL
                     ELSE cfgURL \o <<"/">>) \o EndpointPath
        /\ (Len(cfgURL) - Len(StripSeparators(cfgURL)) <= 1) =>
              reqURL = StripSeparators(cfgURL) \o <<"/">> \o EndpointPath

C10_Witness ==
    /\ pc = "sending"
    /\ Len(cfgURL) - Len(StripSeparators(cfgURL)) >= 2
    /\ reqURL = cfgURL \o EndpointPath

\* ------------------------------------------------------------ ModelManager
\* m[k] = v and delete(m, k) on a Go map
Put(m, k, v) == [x \in (DOMAIN m) \cup {k} |-> IF x = k THEN v ELSE m[x]]
Delete(m, k) == [x \in (DOMAIN m) \ {k} |-> m[x]]

\* a *ChatOptions: nil, or a pointer, ref, to options; two pointers with the
\* same ref point at the same options
NilOptions == [set |-> FALSE, ref |-> 0, value |-> DefaultChatOptions]
SomeOptions(o) == [set |-> TRUE, ref |-> 0, value |-> o]
ChatOptionsArgs == { NilOptions, SomeOptions(ChatOptions(50, 100, FALSE, <<>>)) }
Refs == {1, 2, 3, 4}
AtRef(chatOptions, r) ==
    IF chatOptions.set THEN [chatOptions EXCEPT !.ref = r] ELSE chatOptions

\* ModelConfig, without the API key
ModelConfig(name, url, defaultEnabled, chatOptions) ==
    [Name |-> name, URL |-> url, DefaultEnabled |-> defaultEnabled,
     DefaultChatOptions |-> chatOptions]

\* the letters; a string is the sequence of its characters
UpperLetters == <<"A", "B", "C", "D", "E", "F", "G", "H", "I", "J", "K", "L", "M",
                 "N", "O", "P", "Q", "R", "S", "T", "U", "V", "W", "X", "Y", "Z">>
LowerLetters == <<"a", "b", "c", "d", "e", "f", "g", "h", "i", "j", "k", "l", "m",
                 "n", "o", "p", "q", "r", "s", "t", "u", "v", "w", "x", "y", "z">>

\* strings.ToLower(text)
ToLower(text) ==
    [i \in 1..Len(text) |->
        IF \E k \in 1..Len(UpperLetters) : UpperLetters[k] = text[i]
        THEN LowerLetters[CHOOSE k \in 1..Len(UpperLetters) : UpperLetters[k] = text[i]]
        ELSE text[i]]

\* strings.Contains(text, word)
Contains(text, word) ==
    \E i \in 0..(Len(text) - Len(word)) :
       \A j \in 1..Len(word) : text[i + j] = word[j]

\* the words determineModelType looks for
OpenAIWord == <<"o", "p", "e", "n", "a", "i">>
GptWord == <<"g", "p", "t">>
AnthropicWord == <<"a", "n", "t", "h", "r", "o", "p", "i", "c">>
ClaudeWord == <<"c", "l", "a", "u", "d", "e">>
OpenAIHost == <<"o", "p", "e", "n", "a", "i", ".", "c", "o", "m">>

\* determineModelType(name, url)
determineModelType_AnthropicFirst(name, url) ==
    LET lower == ToLower(name)
    IN IF Contains(lower, AnthropicWord) \/ Contains(lower, ClaudeWord)
       THEN "anthropic"
       ELSE "openai"
determineModelType(name, url) ==
    LET lower == ToLower(name)
    IN IF Contains(lower, OpenAIWord) \/ Contains(lower, GptWord) THEN "openai"
       ELSE IF Contains(lower, AnthropicWord) \/ Contains(lower, ClaudeWord)
       THEN "anthropic"
       ELSE IF Contains(url, OpenAIHost) THEN "openai"
       ELSE "openai"

\* the characters of the names and the base URLs given to the manager
Chars(text) ==
    CASE text = "gpt" -> GptWord
      [] text = "claude" -> ClaudeWord
      [] text = "u1" -> <<"u", "1">>
      [] text = "u2" -> <<"u", "2">>
      [] OTHER -> <<>>

\* CreateModel(config): an OpenAIModel or an AnthropicModel that keeps the
\* config it was made from
CreateModel(config) ==
    [type |-> determineModelType(Chars(config.Name), Chars(config.URL)),
     config |-> config]

\* the error CreateModel returns with the model: every branch returns nil
CreateModelErr_Anthropic(config) ==
    IF determineModelType(Chars(config.Name), Chars(config.URL)) = "anthropic"
    THEN "create" ELSE "nil"
CreateModelErr(config) == "nil"

\* yaml.Marshal(m.configs): the file holds the options, not the pointers
Marshal(cfgs) ==
    [n \in DOMAIN cfgs |-> [cfgs[n] EXCEPT !.DefaultChatOptions.ref = 0]]

\* saveConfig: the file receives m.configs, and nothing else, unless the
\* write fails
SaveConfig(cfgs, file, ok) ==
    IF ok THEN [exists |-> TRUE, configs |-> Marshal(cfgs)] ELSE file
SaveError(ok) == IF ok THEN "nil" ELSE "write"

\* loadConfig on a file that exists
LoadConfig(file) == file.configs

\* the configs for which Init stores a model: those CreateModel accepts
Created(cfgs) == { n \in DOMAIN cfgs : CreateModelErr(cfgs[n]) = "nil" }

\* the names Init can leave in m.defaultModel: the range over the map visits
\* the names in any order, the last config marked DefaultEnabled whose model
\* was created wins, and without such a config the first name of a range over
\* the models is taken
InitDefaults(cfgs) ==
    IF \E n \in Created(cfgs) : cfgs[n].DefaultEnabled
    THEN { n \in Created(cfgs) : cfgs[n].DefaultEnabled }
    ELSE IF Created(cfgs) # {} THEN Created(cfgs)
    ELSE { "" }

\* the call that has just returned: the method, its name argument, and the
\* defaultEnabled of AddModel
Call(op, name, defaultEnabled) ==
    [op |-> op, name |-> name, defaultEnabled |-> defaultEnabled]

\* the options that a config or a model of another name, or the config in the
\* caller's hands, points at, and a pointer to options allocated for name
LiveRefs(name) ==
    { configs[n].DefaultChatOptions.ref : n \in DOMAIN configs \ {name} }
      \cup { models[n].config.DefaultChatOptions.ref : n \in DOMAIN models \ {name} }
      \cup (IF held.has THEN { held.config.DefaultChatOptions.ref } ELSE {})
FreshRef(name) ==
    CHOOSE r \in Refs \ LiveRefs(name) : \A q \in Refs \ LiveRefs(name) : r <= q

\* AddModel: whether the model added becomes the default, given len(m.configs)
\* after the insertion
BecomesDefault_FlagOnly(n, defaultEnabled) == defaultEnabled
BecomesDefault(n, defaultEnabled) == n = 1 \/ defaultEnabled

\* the lookup that RemoveModel, SetDefaultModel, UpdateModelConfig and
\* GetModelConfig make in m.configs, and GetModel in m.models
Exists_Always(m, name) == TRUE
Exists(m, name) == name \in DOMAIN m

\* configCopy := *config: the copy has the fields of the config, and its
\* DefaultChatOptions is the same pointer
ConfigCopy(config) == config

\* a write through a pointer to the options at ref r, as every holder of a
\* pointer to them sees it
WriteThrough(config, r, o) ==
    IF config.DefaultChatOptions.set /\ config.DefaultChatOptions.ref = r
    THEN [config EXCEPT !.DefaultChatOptions.value = o]
    ELSE config

\* ModelManager.Init of the manager that goes on to change the registry; the
\* caller goes on whatever Init returns
ManagerInit ==
    /\ mpc = "new"
    /\ IF ~configFile.exists
       THEN \E ok \in BOOLEAN :
              /\ configFile' = SaveConfig(configs, configFile, ok)
              /\ merr' = SaveError(ok)
              /\ UNCHANGED <<configs, models, defaultModel>>
       ELSE \E ok \in BOOLEAN :
              IF ~ok
              THEN /\ merr' = "read"
                   /\ UNCHANGED <<configs, models, defaultModel, configFile>>
              ELSE /\ configs' = LoadConfig(configFile)
                   /\ models' = [n \in Created(configs') |-> CreateModel(configs'[n])]
                   /\ defaultModel' \in InitDefaults(configs')
                   /\ merr' = "nil"
                   /\ UNCHANGED configFile
    /\ mpc' = "returned"
    /\ mlast' = Call("Init", "", FALSE)
    /\ UNCHANGED <<fresh, held, chatVars, body, failAt, spc, scanVars, result, err,
                   argVars, request, cancelled, bodyClosed, ask, fpc,
                   cliVars, multiVars, histVars, factory>>

\* ModelManager.AddModel
AddModel ==
    /\ mpc = "ready"
    /\ mpc' = "returned"
    /\ \E name \in Names, url \in URLs, defaultEnabled \in BOOLEAN,
          chatOptions \in ChatOptionsArgs, ok \in BOOLEAN :
          /\ mlast' = Call("AddModel", name, defaultEnabled)
          /\ IF name \in DOMAIN configs
             THEN /\ merr' = "ErrModelExists"
                  /\ UNCHANGED <<configs, models, defaultModel, configFile>>
             ELSE LET config == ModelConfig(name, url, defaultEnabled,
                                            AtRef(chatOptions, FreshRef(name)))
                  IN IF CreateModelErr(config) # "nil"
                     THEN /\ merr' = "create"
                          /\ UNCHANGED <<configs, models, defaultModel, configFile>>
                     ELSE /\ models' = Put(models, name, CreateModel(config))
                          /\ configs' = Put(configs, name, config)
                          /\ defaultModel' =
                                IF BecomesDefault(Cardinality(DOMAIN configs'),
                                                  defaultEnabled)
                                THEN name ELSE defaultModel
                          /\ configFile' = SaveConfig(configs', configFile, ok)
                          /\ merr' = SaveError(ok)
    /\ UNCHANGED <<fresh, held, chatVars, body, failAt, spc, scanVars, result,
                   err, argVars, request, cancelled, bodyClosed, ask, fpc,
                   cliVars, multiVars, histVars, factory>>

\* ModelManager.RemoveModel
RemoveModel ==
    /\ mpc = "ready"
    /\ mpc' = "returned"
    /\ \E name \in Names, ok \in BOOLEAN :
          /\ mlast' = Call("RemoveModel", name, FALSE)
          /\ IF ~Exists(configs, name)
             THEN /\ merr' = "ErrModelNotFound"
                  /\ UNCHANGED <<configs, models, configFile>>
             ELSE /\ models' = Delete(models, name)
                  /\ configs' = Delete(configs, name)
                  /\ configFile' = SaveConfig(configs', configFile, ok)
                  /\ merr' = SaveError(ok)
    /\ UNCHANGED <<defaultModel, fresh, held, chatVars, body, failAt, spc,
                   scanVars, result, err, argVars, request, cancelled, bodyClosed,
                   ask, fpc, cliVars, multiVars, histVars, factory>>

\* ModelManager.SetDefaultModel
SetDefaultModel ==
    /\ mpc = "ready"
    /\ mpc' = "returned"
    /\ \E name \in Names, ok \in BOOLEAN :
          /\ mlast' = Call("SetDefaultModel", name, FALSE)
          /\ IF ~Exists(configs, name)
             THEN /\ merr' = "ErrModelNotFound"
                  /\ UNCHANGED <<defaultModel, configFile>>
             ELSE /\ defaultModel' = name
                  /\ configFile' = SaveConfig(configs, configFile, ok)
                  /\ merr' = SaveError(ok)
    /\ UNCHANGED <<configs, models, fresh, held, chatVars, body, failAt, spc,
                   scanVars, result, err, argVars, request, cancelled, bodyClosed,
                   ask, fpc,
                   cliVars, multiVars, histVars, factory>>

\* ModelManager.UpdateModelConfig: the config is stored before CreateModel is
\* called
UpdateModelConfig ==
    /\ mpc = "ready"
    /\ mpc' = "returned"
    /\ \E name \in Names, url \in URLs, defaultEnabled \in BOOLEAN,
          chatOptions \in ChatOptionsArgs, ok \in BOOLEAN :
          /\ mlast' = Call("UpdateModelConfig", name, FALSE)
          /\ IF ~Exists(configs, name)
             THEN /\ merr' = "ErrModelNotFound"
                  /\ UNCHANGED <<configs, models, defaultModel, configFile>>
             ELSE LET config == ModelConfig(name, url, defaultEnabled,
                                            AtRef(chatOptions, FreshRef(name)))
                  IN /\ configs' = Put(configs, name, config)
                     /\ defaultModel' = IF defaultEnabled THEN name ELSE defaultModel
                     /\ IF CreateModelErr(config) # "nil"
                        THEN /\ merr' = "create"
                             /\ UNCHANGED <<models, configFile>>
                        ELSE /\ models' = Put(models, name, CreateModel(config))
                             /\ configFile' = SaveConfig(configs', configFile, ok)
                             /\ merr' = SaveError(ok)
    /\ UNCHANGED <<fresh, held, chatVars, body, failAt, spc, scanVars, result,
                   err, argVars, request, cancelled, bodyClosed, ask, fpc,
                   cliVars, multiVars, histVars, factory>>

\* ModelManager.GetModel: the lookup is in m.models
GetModel ==
    /\ mpc = "ready"
    /\ mpc' = "returned"
    /\ \E name \in Names :
          /\ mlast' = Call("GetModel", name, FALSE)
          /\ merr' = IF ~Exists(models, name) THEN "ErrModelNotFound" ELSE "nil"
    /\ UNCHANGED <<configs, models, defaultModel, configFile, fresh, held,
                   chatVars, body, failAt, spc, scanVars, result, err, argVars,
                   request, cancelled, bodyClosed, ask, fpc, cliVars, multiVars, histVars, factory>>

\* ModelManager.GetModelConfig: the caller receives a copy of the config
GetModelConfig ==
    /\ mpc = "ready"
    /\ mpc' = "returned"
    /\ \E name \in Names :
          /\ mlast' = Call("GetModelConfig", name, FALSE)
          /\ IF ~Exists(configs, name)
             THEN /\ merr' = "ErrModelNotFound"
                  /\ UNCHANGED held
             ELSE /\ merr' = "nil"
                  /\ held' = [has |-> TRUE, name |-> name,
                              config |-> ConfigCopy(configs[name])]
    /\ UNCHANGED <<configs, models, defaultModel, configFile, fresh,
                   chatVars, body, failAt, spc, scanVars, result, err, argVars,
                   request, cancelled, bodyClosed, ask, fpc, cliVars, multiVars, histVars, factory>>

\* ModelManager.ListModels: a map of copies, of which the caller keeps one
ListModels ==
    /\ mpc = "ready"
    /\ mpc' = "returned"
    /\ mlast' = Call("ListModels", "", FALSE)
    /\ merr' = "nil"
    /\ IF DOMAIN configs = {}
       THEN UNCHANGED held
       ELSE \E name \in DOMAIN configs :
               held' = [has |-> TRUE, name |-> name,
                        config |-> ConfigCopy(configs[name])]
    /\ UNCHANGED <<configs, models, defaultModel, configFile, fresh,
                   chatVars, body, failAt, spc, scanVars, result, err, argVars,
                   request, cancelled, bodyClosed, ask, fpc, cliVars, multiVars, histVars, factory>>

\* the caller assigns to a field of the config it has just received: to URL,
\* or to Temperature of its DefaultChatOptions, which changes the options for
\* every holder of a pointer to them
CallerModify ==
    /\ mpc = "returned"
    /\ held.has
    /\ \/ /\ held' = [held EXCEPT !.config.URL = "u2"]
          /\ UNCHANGED <<configs, models>>
       \/ /\ held.config.DefaultChatOptions.set
          /\ LET r == held.config.DefaultChatOptions.ref
                 o == [held.config.DefaultChatOptions.value
                          EXCEPT !.Temperature = 90]
             IN /\ held' = [held EXCEPT !.config = WriteThrough(@, r, o)]
                /\ configs' = [n \in DOMAIN configs |-> WriteThrough(configs[n], r, o)]
                /\ models' = [n \in DOMAIN models |->
                                [models[n] EXCEPT
                                    !.config = WriteThrough(@, r, o)]]
    /\ held' # held
    /\ UNCHANGED <<defaultModel, configFile, mpc, merr, mlast, fresh,
                   chatVars, body, failAt, spc, scanVars, result, err, argVars,
                   request, cancelled, bodyClosed, ask, fpc, cliVars, multiVars, histVars, factory>>

\* the call has returned and the caller goes on, without the error and the
\* config it received
ManagerReturn ==
    /\ mpc = "returned"
    /\ mpc' = "ready"
    /\ mlast' = NoCall
    /\ merr' = "nil"
    /\ held' = NoHeld
    /\ UNCHANGED <<configs, models, defaultModel, configFile, fresh,
                   chatVars, body, failAt, spc, scanVars, result, err, argVars,
                   request, cancelled, bodyClosed, ask, fpc, cliVars, multiVars, histVars, factory>>

\* NewModelManager and Init of a second manager, on the file as the first
\* manager left it
FreshInit ==
    /\ mpc = "ready"
    /\ configFile.exists
    /\ \E d \in InitDefaults(LoadConfig(configFile)) :
          fresh' = [inited |-> TRUE, configs |-> LoadConfig(configFile),
                    defaultModel |-> d]
    /\ mpc' = "restarted"
    /\ UNCHANGED <<configs, models, defaultModel, configFile, merr, held, mlast,
                   chatVars, body,
                   failAt, spc, scanVars, result, err, argVars, request, cancelled,
                   bodyClosed, ask, fpc,
                   cliVars, multiVars, histVars, factory>>

\* the config files a manager can find when it starts: none, or one that a
\* manager saved
SavedConfigs ==
    UNION { [S -> { ModelConfig(n, "u1", d, NilOptions) : n \in S, d \in BOOLEAN }] :
            S \in SUBSET Names }
StartFiles ==
    { [exists |-> FALSE, configs |-> <<>>] }
        \cup { [exists |-> TRUE, configs |-> c] :
               c \in { f \in SavedConfigs : \A n \in DOMAIN f : f[n].Name = n } }

InitManager ==
    /\ configs = <<>>
    /\ models = <<>>
    /\ defaultModel = ""
    /\ configFile \in StartFiles
    /\ mpc = "new"
    /\ merr = "nil"
    /\ fresh = NoFresh
    /\ held = NoHeld
    /\ mlast = NoCall
    /\ NoHistory
    /\ factory = NoFactory
    /\ NoFacade
    /\ NoCLI
    /\ NoMulti
    /\ cfgURL = <<>>
    /\ optStream = FALSE
    /\ optTempOK = TRUE
    /\ net = TransportFailure
    /\ body = <<>>
    /\ failAt = -1
    /\ pc = "new"
    /\ reqURL = <<>>
    /\ requests = 0
    /\ peerURL = <<>>
    /\ peerReq = <<>>
    /\ spc = "off"
    /\ avail = 0
    /\ serr = "nil"
    /\ pos = 0
    /\ brk = FALSE
    /\ fullContent = <<>>
    /\ stdout = <<>>
    /\ result = <<>>
    /\ err = NoErr
    /\ messages = <<>>
    /\ opts = ClientOpts(DefaultChatOptions)
    /\ request = NoRequest
    /\ cancelled = "no"
    /\ bodyClosed = FALSE

NextManager ==
    \/ ManagerInit
    \/ AddModel
    \/ RemoveModel
    \/ SetDefaultModel
    \/ UpdateModelConfig
    \/ GetModel
    \/ GetModelConfig
    \/ ListModels
    \/ CallerModify
    \/ ManagerReturn
    \/ FreshInit

SpecManager == InitManager /\ [][NextManager]_vars

\* ------------------------------------------------------------ the commands
\* fmt.Fprintf(os.Stderr, prefix+"%v\n", err)
ErrLine(prefix, e) == [prefix |-> prefix, err |-> e]

\* Execute: os.Exit(1) when rootCmd.Execute() returns an error, which it does
\* for arguments that cobra rejects and never for what a Run function did,
\* because Run returns nothing
ExecuteExit(executeErr) == IF executeErr THEN 1 ELSE 0

\* Args: cobra.MinimumNArgs(1) of the root command, cobra.ExactArgs(2) of file
ValidArgs(c) ==
    IF c.cmd = "file" THEN Len(c.args) = 2 ELSE Len(c.args) >= 1

\* modelManager.GetDefaultModel(): the error, or "nil"
GetDefaultModelErr ==
    IF defaultModel = "" THEN "nodefault"
    ELSE IF defaultModel \notin DOMAIN models THEN "ErrModelNotFound"
    ELSE "nil"

\* AnthropicModel.Chat and ChatWithFile
AnthropicChat(question) == <<"[Anthropic] Response to: ">> \o question
AnthropicChatWithFile(question, fileName) ==
    <<"[Anthropic] Response to file ">> \o fileName \o <<" question: ">> \o question

\* convertToModelMessages(historyManager.GetMessages())
convertToModelMessages(msgs) ==
    [i \in 1..Len(msgs) |-> Message(msgs[i].role, msgs[i].content)]

\* the call of one of the two methods of a model, as ModelChat and
\* ModelChatWithFile take it up
NewAsk(model, method, question, fileName, fileContent, options) ==
    [method |-> method, question |-> question, fileName |-> fileName,
     fileContent |-> fileContent, options |-> options,
     hasDefaults |-> model.config.DefaultChatOptions.set,
     defaults |-> model.config.DefaultChatOptions.value]

\* cobra rejects the arguments: rootCmd.Execute() prints and returns the error
CobraArgs ==
    /\ cpc = "start"
    /\ ~ValidArgs(command)
    /\ stderr' = Append(stderr, ErrLine("Error: ", ErrOf("args")))
    /\ exitCode' = ExecuteExit(TRUE)
    /\ cpc' = "exit"
    /\ UNCHANGED <<command, session, chatVars, body, failAt, spc, scanVars, result,
                   err, argVars, request, cancelled, bodyClosed, ask, fpc, mgrVars,
                   multiVars, histVars, factory>>

\* rootCmd.Run up to the call of model.Chat
RootRun ==
    /\ cpc = "start"
    /\ command.cmd = "ask"
    /\ ValidArgs(command)
    /\ IF GetDefaultModelErr # "nil"
       THEN /\ stderr' = Append(stderr, ErrLine("Error: ", ErrOf(GetDefaultModelErr)))
            /\ exitCode' = ExecuteExit(FALSE)
            /\ cpc' = "exit"
            /\ UNCHANGED <<ask, fpc, cfgURL, result>>
       ELSE LET model == models[defaultModel]
                question == command.args[1]
                chatOptions ==
                    IF ~command.noHistory /\ Len(session) # 0
                    THEN << WithHistory(convertToModelMessages(session)) >>
                    ELSE <<>>
            IN /\ ask' = NewAsk(model, "Chat", question, <<>>, <<>>, chatOptions)
               /\ cfgURL' = << model.config.URL >>
               /\ IF model.type = "anthropic"
                  THEN /\ result' = AnthropicChat(question)
                       /\ fpc' = "ret"
                  ELSE /\ fpc' = "call"
                       /\ UNCHANGED result
               /\ cpc' = "call"
               /\ UNCHANGED <<stderr, exitCode>>
    /\ UNCHANGED <<command, session, optStream, optTempOK, net, pc, reqURL, requests,
                   peerURL, peerReq, body, failAt, spc, scanVars, err, argVars,
                   request, cancelled, bodyClosed, mgrVars, multiVars, histVars, factory>>

\* rootCmd.Run after model.Chat returned, and the exit of the process
RootReturn ==
    /\ cpc = "call"
    /\ fpc = "ret"
    /\ command.cmd = "ask"
    /\ IF err # NoErr
       THEN /\ stderr' = Append(stderr, ErrLine("Error: ", err))
            /\ UNCHANGED session
       ELSE /\ session' = session \o << Message("user", command.args[1]),
                                         Message("assistant", result) >>
            /\ UNCHANGED stderr
    /\ exitCode' = ExecuteExit(FALSE)
    /\ cpc' = "exit"
    /\ UNCHANGED <<command, chatVars, body, failAt, spc, scanVars, result, err,
                   argVars, request, cancelled, bodyClosed, ask, fpc, mgrVars,
                   multiVars, histVars, factory>>

\* what util.GetFileInfo reads from a readable file
FileContent == <<"l1", "l2">>

\* askWithFile up to the call of model.ChatWithFile
FileRun ==
    /\ cpc = "start"
    /\ command.cmd = "file"
    /\ ValidArgs(command)
    /\ IF ~command.readable
       THEN /\ stderr' = Append(stderr, ErrLine("Failed to read file: ", ErrOf("file")))
            /\ exitCode' = ExecuteExit(FALSE)
            /\ cpc' = "exit"
            /\ UNCHANGED <<ask, fpc, cfgURL, result, stdout>>
       ELSE IF GetDefaultModelErr # "nil"
       THEN /\ stdout' = stdout \o <<"No default model set. Please add a model first:", "\n",
                                     "  ai model add <model> <url> <apikey>", "\n">>
            /\ exitCode' = ExecuteExit(FALSE)
            /\ cpc' = "exit"
            /\ UNCHANGED <<ask, fpc, cfgURL, result, stderr>>
       ELSE LET model == models[defaultModel]
                filePath == command.args[1]
                question == command.args[2]
            IN /\ ask' = NewAsk(model, "ChatWithFile", question, filePath, FileContent, <<>>)
               /\ cfgURL' = << model.config.URL >>
               /\ IF model.type = "anthropic"
                  THEN /\ result' = AnthropicChatWithFile(question, filePath)
                       /\ fpc' = "ret"
                  ELSE /\ fpc' = "call"
                       /\ UNCHANGED result
               /\ cpc' = "call"
               /\ UNCHANGED <<stderr, exitCode, stdout>>
    /\ UNCHANGED <<command, session, optStream, optTempOK, net, pc, reqURL, requests,
                   peerURL, peerReq, body, failAt, spc, avail, serr, pos, brk,
                   fullContent, err, argVars, request, cancelled, bodyClosed,
                   mgrVars, multiVars, histVars, factory>>

\* askWithFile after model.ChatWithFile returned, and the exit of the process
FileReturn ==
    /\ cpc = "call"
    /\ fpc = "ret"
    /\ command.cmd = "file"
    /\ IF err # NoErr
       THEN /\ stderr' = Append(stderr, ErrLine("Question failed: ", err))
            /\ UNCHANGED stdout
       ELSE /\ stdout' = stdout \o <<"File: ">> \o command.args[1] \o <<"\n", "Question: ">>
                             \o command.args[2] \o <<"\n", "\n">> \o result \o <<"\n">>
            /\ UNCHANGED stderr
    /\ exitCode' = ExecuteExit(FALSE)
    /\ cpc' = "exit"
    /\ UNCHANGED <<command, session, chatVars, body, failAt, spc, avail, serr, pos,
                   brk, fullContent, result, err, argVars, request, cancelled,
                   bodyClosed, ask, fpc, mgrVars, multiVars, histVars, factory>>

\* the command lines: a question, with or without --no-history, no argument
\* at all, and the file command on a file that can or cannot be read
Commands ==
    { [cmd |-> "ask", args |-> << <<"q">> >>, noHistory |-> h, readable |-> FALSE] :
        h \in BOOLEAN }
      \cup { [cmd |-> "ask", args |-> <<>>, noHistory |-> FALSE, readable |-> FALSE] }
      \cup { [cmd |-> "file", args |-> << <<"a.go">>, <<"q">> >>, noHistory |-> FALSE,
              readable |-> r] : r \in BOOLEAN }

\* the registries the command can find: empty, one model that is the default,
\* and a default name whose model was removed
Registries ==
    { [configs |-> <<>>, defaultModel |-> ""] }
      \cup { [configs |-> Put(<<>>, n, ModelConfig(n, "u1", FALSE, o)),
               defaultModel |-> d] :
             n \in Names, d \in Names, o \in ChatOptionsArgs }

\* the sessions the history manager can have loaded
Sessions == { <<>>, << Message("user", <<"h1">>), Message("assistant", <<"h2">>) >> }

InitCLI ==
    /\ cpc = "start"
    /\ command \in Commands
    /\ stderr = <<>>
    /\ exitCode = -1
    /\ session \in Sessions
    /\ \E r \in Registries :
          /\ configs = r.configs
          /\ models = [n \in DOMAIN r.configs |-> CreateModel(r.configs[n])]
          /\ defaultModel = r.defaultModel
          /\ configFile = [exists |-> TRUE, configs |-> r.configs]
    /\ mpc = "ready"
    /\ merr = "nil"
    /\ fresh = NoFresh
    /\ held = NoHeld
    /\ mlast = NoCall
    /\ NoHistory
    /\ factory = NoFactory
    /\ NoMulti
    /\ NoFacade
    /\ cfgURL = <<>>
    /\ optStream = FALSE
    /\ optTempOK = TRUE
    /\ net \in AskOutcomes
    /\ body \in AskBodies
    /\ failAt = -1
    /\ pc = "new"
    /\ reqURL = <<>>
    /\ requests = 0
    /\ peerURL = <<>>
    /\ peerReq = <<>>
    /\ spc = "off"
    /\ avail = 0
    /\ serr = "nil"
    /\ pos = 0
    /\ brk = FALSE
    /\ fullContent = <<>>
    /\ stdout = <<>>
    /\ result = <<>>
    /\ err = NoErr
    /\ messages = <<>>
    /\ opts = ClientOpts(DefaultChatOptions)
    /\ request = NoRequest
    /\ cancelled = "no"
    /\ bodyClosed = FALSE

NextCLI ==
    \/ CobraArgs
    \/ RootRun
    \/ RootReturn
    \/ FileRun
    \/ FileReturn
    \/ ModelChat
    \/ ModelChatWithFile
    \/ ModelReturn
    \/ ChatPrepare
    \/ DoTransportError
    \/ DoAPIError
    \/ DoStream
    \/ DoNormal
    \/ HandleNormal
    \/ ScanRead
    \/ LineSkip
    \/ LineDone
    \/ LineBad
    \/ LineChunk
    \/ ScanEnd
    \/ StreamExit

SpecCLI == InitCLI /\ [][NextCLI]_vars

\* --------------------------------------------------------- askMultiModels
\* a channel with room for all results but one
ChanCap_OneLess(names) == Len(names) - 1

\* make(chan ..., len(modelNames))
ChanCap(names) == Len(names)

\* the loop variable as every worker would see it after the loop
WorkerName_LoopVariable(i) == modelNames[Len(modelNames)]

\* go func(modelName string) { ... }(name): each worker gets the name of its
\* own turn of the loop as an argument
WorkerName(i) == modelNames[i]

\* the struct sent on the channel
WorkerResult(modelName, response, e) ==
    [modelName |-> modelName, response |-> response, err |-> e]

\* what model.Chat(ctx, question, models.WithStream(false)) can return: the
\* labelled text of an AnthropicModel, and for an OpenAIModel the returns of
\* OpenAIClient.Chat without stream
MultiChatReturns(model, question) ==
    IF model.type = "anthropic"
    THEN { [text |-> AnthropicChat(question), err |-> NoErr] }
    ELSE { [text |-> MsgA[1].message, err |-> NoErr],
           [text |-> <<>>, err |-> ErrOf("transport")],
           [text |-> <<>>, err |-> APIError(500, <<>>)] }

SetAt(seq, i, v) == [seq EXCEPT ![i] = v]

\* for _, name := range modelNames { wg.Add(1); go func ... }
MultiSpawn ==
    /\ mainpc = "spawn"
    /\ Len(wpc) < Len(modelNames)
    /\ wg' = wg + 1
    /\ wpc' = Append(wpc, "start")
    /\ wres' = Append(wres, WorkerResult("", <<>>, NoErr))
    /\ UNCHANGED <<modelNames, mainpc, responsesCh, chClosed, closerpc, received,
                   cliVars, mgrVars, histVars, factory, chatVars, body, failAt, spc, scanVars, result,
                   err, argVars, request, cancelled, bodyClosed, ask, fpc>>

\* go func() { wg.Wait(); close(responsesCh) }() and the Printf of the question
MultiStartCloser ==
    /\ mainpc = "spawn"
    /\ Len(wpc) = Len(modelNames)
    /\ closerpc' = "wait"
    /\ mainpc' = "collect"
    /\ stdout' = stdout \o <<"Question: ">> \o command.args[1] \o <<"\n", "\n">>
    /\ UNCHANGED <<modelNames, wpc, wres, wg, responsesCh, chClosed, received,
                   cliVars, mgrVars, histVars, factory, chatVars, body, failAt, spc, avail, serr, pos,
                   brk, fullContent, result, err, argVars, request, cancelled,
                   bodyClosed, ask, fpc>>

\* a worker: modelManager.GetModel(modelName)
WorkerGet ==
    \E i \in 1..Len(wpc) :
       /\ wpc[i] = "start"
       /\ IF WorkerName(i) \notin DOMAIN models
          THEN /\ wres' = SetAt(wres, i, WorkerResult(WorkerName(i), <<>>,
                                                       ErrOf("ErrModelNotFound")))
               /\ wpc' = SetAt(wpc, i, "send")
          ELSE /\ wpc' = SetAt(wpc, i, "chat")
               /\ UNCHANGED wres
       /\ UNCHANGED <<modelNames, mainpc, wg, responsesCh, chClosed, closerpc,
                      received, cliVars, mgrVars, histVars, factory, chatVars, body, failAt, spc,
                      scanVars, result, err, argVars, request, cancelled,
                      bodyClosed, ask, fpc>>

\* a worker: model.Chat(ctx, question, models.WithStream(false))
WorkerChat ==
    \E i \in 1..Len(wpc) :
       /\ wpc[i] = "chat"
       /\ \E r \in MultiChatReturns(models[WorkerName(i)], command.args[1]) :
             wres' = SetAt(wres, i, WorkerResult(WorkerName(i), r.text, r.err))
       /\ wpc' = SetAt(wpc, i, "send")
       /\ UNCHANGED <<modelNames, mainpc, wg, responsesCh, chClosed, closerpc,
                      received, cliVars, mgrVars, histVars, factory, chatVars, body, failAt, spc,
                      scanVars, result, err, argVars, request, cancelled,
                      bodyClosed, ask, fpc>>

\* a worker: responsesCh <- result, which waits while the buffer is full and
\* panics on a closed channel
WorkerSend ==
    \E i \in 1..Len(wpc) :
       /\ wpc[i] = "send"
       /\ IF chClosed > 0
          THEN /\ wpc' = SetAt(wpc, i, "panic")
               /\ UNCHANGED responsesCh
          ELSE /\ Len(responsesCh) < ChanCap(modelNames)
               /\ responsesCh' = Append(responsesCh, wres[i])
               /\ wpc' = SetAt(wpc, i, "sent")
       /\ UNCHANGED <<modelNames, mainpc, wres, wg, chClosed, closerpc, received,
                      cliVars, mgrVars, histVars, factory, chatVars, body, failAt, spc, scanVars,
                      result, err, argVars, request, cancelled, bodyClosed, ask,
                      fpc>>

\* a worker: the deferred wg.Done()
WorkerDone ==
    \E i \in 1..Len(wpc) :
       /\ wpc[i] = "sent"
       /\ wg' = wg - 1
       /\ wpc' = SetAt(wpc, i, "done")
       /\ UNCHANGED <<modelNames, mainpc, wres, responsesCh, chClosed, closerpc,
                      received, cliVars, mgrVars, histVars, factory, chatVars, body, failAt, spc,
                      scanVars, result, err, argVars, request, cancelled,
                      bodyClosed, ask, fpc>>

\* wg.Wait() returns, close(responsesCh)
CloserClose ==
    /\ closerpc = "wait"
    /\ wg = 0
    /\ chClosed' = chClosed + 1
    /\ closerpc' = "done"
    /\ UNCHANGED <<modelNames, mainpc, wpc, wres, wg, responsesCh, received,
                   cliVars, mgrVars, histVars, factory, chatVars, body, failAt, spc, scanVars, result,
                   err, argVars, request, cancelled, bodyClosed, ask, fpc>>

\* the lines printed for one result
ResultLines(r) ==
    <<"===== Model: ", r.modelName, " =====", "\n">>
        \o (IF r.err # NoErr THEN <<"Error: ", r.err.kind, "\n">>
            ELSE r.response \o <<"\n">>)
        \o <<"\n">>

\* one turn of for resp := range responsesCh
MultiReceive ==
    /\ mainpc = "collect"
    /\ Len(responsesCh) > 0
    /\ received' = Append(received, Head(responsesCh))
    /\ responsesCh' = Tail(responsesCh)
    /\ stdout' = stdout \o ResultLines(Head(responsesCh))
    /\ UNCHANGED <<modelNames, mainpc, wpc, wres, wg, chClosed, closerpc, cliVars,
                   mgrVars, histVars, factory, chatVars, body, failAt, spc, avail, serr, pos, brk,
                   fullContent, result, err, argVars, request, cancelled,
                   bodyClosed, ask, fpc>>

\* the range loop ends on the closed and empty channel; the command returns
MultiEnd ==
    /\ mainpc = "collect"
    /\ Len(responsesCh) = 0
    /\ chClosed > 0
    /\ mainpc' = "done"
    /\ cpc' = "exit"
    /\ exitCode' = ExecuteExit(FALSE)
    /\ UNCHANGED <<modelNames, wpc, wres, wg, responsesCh, chClosed, closerpc,
                   received, command, stderr, session, mgrVars, histVars, factory, chatVars, body,
                   failAt, spc, scanVars, result, err, argVars, request, cancelled,
                   bodyClosed, ask, fpc>>

\* the names that can be asked: two registered models and a name that is not
MultiNames == Names \cup {"none"}

MultiCommand ==
    [cmd |-> "multi", args |-> << <<"q">> >>, noHistory |-> FALSE, readable |-> FALSE]

InitMulti ==
    /\ modelNames \in SeqsUpTo(MultiNames, MaxWorkers) \ {<<>>}
    /\ mainpc = "spawn"
    /\ wpc = <<>>
    /\ wres = <<>>
    /\ wg = 0
    /\ responsesCh = <<>>
    /\ chClosed = 0
    /\ closerpc = "off"
    /\ received = <<>>
    /\ cpc = "call"
    /\ command = MultiCommand
    /\ stderr = <<>>
    /\ exitCode = -1
    /\ session = <<>>
    /\ configs = [n \in Names |-> ModelConfig(n, "u1", FALSE, NilOptions)]
    /\ models = [n \in Names |-> CreateModel(configs[n])]
    /\ defaultModel = "gpt"
    /\ configFile = [exists |-> TRUE, configs |-> configs]
    /\ mpc = "ready"
    /\ merr = "nil"
    /\ fresh = NoFresh
    /\ held = NoHeld
    /\ mlast = NoCall
    /\ NoHistory
    /\ factory = NoFactory
    /\ NoFacade
    /\ cfgURL = <<>>
    /\ optStream = FALSE
    /\ optTempOK = TRUE
    /\ net = TransportFailure
    /\ body = <<>>
    /\ failAt = -1
    /\ pc = "new"
    /\ reqURL = <<>>
    /\ requests = 0
    /\ peerURL = <<>>
    /\ peerReq = <<>>
    /\ spc = "off"
    /\ avail = 0
    /\ serr = "nil"
    /\ pos = 0
    /\ brk = FALSE
    /\ fullContent = <<>>
    /\ stdout = <<>>
    /\ result = <<>>
    /\ err = NoErr
    /\ messages = <<>>
    /\ opts = ClientOpts(DefaultChatOptions)
    /\ request = NoRequest
    /\ cancelled = "no"
    /\ bodyClosed = FALSE

NextMulti ==
    \/ MultiSpawn
    \/ MultiStartCloser
    \/ WorkerGet
    \/ WorkerChat
    \/ WorkerSend
    \/ WorkerDone
    \/ CloserClose
    \/ MultiReceive
    \/ MultiEnd

SpecMulti == InitMulti /\ [][NextMulti]_vars

\* the steps of the function itself, of the workers and of the goroutine that
\* closes the channel
MultiMain == MultiSpawn \/ MultiStartCloser \/ MultiReceive \/ MultiEnd
MultiWorkers == WorkerGet \/ WorkerChat \/ WorkerSend \/ WorkerDone

\* the scheduler runs every goroutine that can run, and a call of model.Chat
\* returns (the client has a timeout)
FairSpecMulti ==
    /\ SpecMulti
    /\ WF_vars(MultiMain)
    /\ WF_vars(MultiWorkers)
    /\ WF_vars(CloserClose)

\* ------------------------------------------------------ the history manager
\* most session IDs that generateSessionID gives out, and most messages that
\* a caller of the manager adds to a session
MaxSessions == 2
MaxMessages == 2

\* history.Message, without its timestamp
HistoryMessage(role, content) == [Role |-> role, Content |-> content]

\* a session ID as a caller writes it: the name that generateSessionID gave,
\* alone or after "./"
SessionID(prefix, name) == [prefix |-> prefix, name |-> name]
SessionIDs == { SessionID(px, n) : px \in {"", "./"}, n \in 1..MaxSessions }

\* generateSessionID: the time and six random letters, a name not given before
generateSessionID == SessionID("", hgen + 1)

\* filepath.Join(m.storagePath, "sessions", sessionID+".json"): Join cleans the
\* path, so that "./" before the name leads to the same file
SessionPath(sessionID) == sessionID.name

\* json.Marshal of a string: bytes that are not valid UTF-8 are written as
\* U+FFFD
BadUTF8 == "<ff>"
ReplacementChar == "<fffd>"
Contents == {"q", BadUTF8}
EncodeString(str) == IF str = BadUTF8 THEN ReplacementChar ELSE str

\* json.MarshalIndent(session, "", "  "), as json.Unmarshal reads it back
EncodeSession(sess) ==
    [ID |-> sess.ID,
     Messages |-> [i \in 1..Len(sess.Messages) |->
                     HistoryMessage(sess.Messages[i].Role,
                                    EncodeString(sess.Messages[i].Content))]]

\* saveSessionToFile(session) writes sessions/<session.ID>.json
SaveSessionToFile_Skip(files, sess) == files
SaveSessionToFile(files, sess) ==
    Put(files, SessionPath(sess.ID), EncodeSession(sess))

\* the call that has just returned
HistoryCall(op, id, role, content, error) ==
    [op |-> op, id |-> id, role |-> role, content |-> content, err |-> error]

\* append(m.currentSession.Messages, Message{...}), saveCurrentSession and
\* saveSessionToFile, by process p; what the two writes return is dropped
AddMessage(p, role, content) ==
    /\ hcur' = [hcur EXCEPT ![p].Messages = Append(@, HistoryMessage(role, content))]
    /\ curFile' = EncodeSession(hcur'[p])
    /\ sessFiles' = SaveSessionToFile(sessFiles, hcur'[p])

\* NewManager(storagePath): the current session is loaded, or a new one is
\* made when there is no file current_session.json
NewManager ==
    \E p \in Procs :
       /\ hpc[p] \in {"new", "cmd"}
       /\ IF curFile # NoSession
          THEN /\ hcur' = [hcur EXCEPT ![p] = curFile]
               /\ UNCHANGED <<curFile, hgen>>
          ELSE /\ hcur' = [hcur EXCEPT ![p] =
                              [ID |-> generateSessionID, Messages |-> <<>>]]
               /\ curFile' = EncodeSession(hcur'[p])
               /\ hgen' = hgen + 1
       /\ hpc' = [hpc EXCEPT ![p] = IF hpc[p] = "new" THEN "returned" ELSE "run"]
       /\ hlast' = HistoryCall("NewManager", NoSession.ID, "", "", "nil")
       /\ UNCHANGED <<sessFiles, chatVars, body, failAt, spc, scanVars, result, err,
                      argVars, request, cancelled, bodyClosed, ask, fpc, mgrVars,
                      cliVars, multiVars, factory>>

\* Manager.New
HistoryNew ==
    \E p \in Procs :
       /\ hpc[p] = "idle"
       /\ hgen < MaxSessions
       /\ hcur' = [hcur EXCEPT ![p] = [ID |-> generateSessionID, Messages |-> <<>>]]
       /\ curFile' = EncodeSession(hcur'[p])
       /\ hgen' = hgen + 1
       /\ hpc' = [hpc EXCEPT ![p] = "returned"]
       /\ hlast' = HistoryCall("New", NoSession.ID, "", "", "nil")
       /\ UNCHANGED <<sessFiles, chatVars, body, failAt, spc, scanVars, result, err,
                      argVars, request, cancelled, bodyClosed, ask, fpc, mgrVars,
                      cliVars, multiVars, factory>>

\* Manager.AddUserMessage
AddUserMessage ==
    \E p \in Procs, content \in Contents :
       /\ hpc[p] = "idle"
       /\ Len(hcur[p].Messages) < MaxMessages
       /\ AddMessage(p, "user", content)
       /\ hpc' = [hpc EXCEPT ![p] = "returned"]
       /\ hlast' = HistoryCall("AddUserMessage", NoSession.ID, "user", content, "nil")
       /\ UNCHANGED <<hgen, chatVars, body, failAt, spc, scanVars, result, err,
                      argVars, request, cancelled, bodyClosed, ask, fpc, mgrVars,
                      cliVars, multiVars, factory>>

\* Manager.AddAssistantMessage
AddAssistantMessage ==
    \E p \in Procs, content \in Contents :
       /\ hpc[p] = "idle"
       /\ Len(hcur[p].Messages) < MaxMessages
       /\ AddMessage(p, "assistant", content)
       /\ hpc' = [hpc EXCEPT ![p] = "returned"]
       /\ hlast' = HistoryCall("AddAssistantMessage", NoSession.ID, "assistant",
                               content, "nil")
       /\ UNCHANGED <<hgen, chatVars, body, failAt, spc, scanVars, result, err,
                      argVars, request, cancelled, bodyClosed, ask, fpc, mgrVars,
                      cliVars, multiVars, factory>>

\* Manager.SwitchSession
SwitchSession ==
    \E p \in Procs, sessionID \in SessionIDs :
       /\ hpc[p] = "idle"
       /\ IF SessionPath(sessionID) \notin DOMAIN sessFiles
          THEN /\ hlast' = HistoryCall("SwitchSession", sessionID, "", "", "read")
               /\ UNCHANGED <<hcur, curFile>>
          ELSE /\ hcur' = [hcur EXCEPT ![p] = sessFiles[SessionPath(sessionID)]]
               /\ curFile' = EncodeSession(hcur'[p])
               /\ hlast' = HistoryCall("SwitchSession", sessionID, "", "", "nil")
       /\ hpc' = [hpc EXCEPT ![p] = "returned"]
       /\ UNCHANGED <<sessFiles, hgen, chatVars, body, failAt, spc, scanVars, result,
                      err, argVars, request, cancelled, bodyClosed, ask, fpc, mgrVars,
                      cliVars, multiVars, factory>>

\* Manager.DeleteSession
DeleteSession ==
    \E p \in Procs, sessionID \in SessionIDs :
       /\ hpc[p] = "idle"
       /\ IF hcur[p] # NoSession /\ hcur[p].ID = sessionID
          THEN /\ hlast' = HistoryCall("DeleteSession", sessionID, "", "", "current")
               /\ UNCHANGED sessFiles
          ELSE IF SessionPath(sessionID) \notin DOMAIN sessFiles
          THEN /\ hlast' = HistoryCall("DeleteSession", sessionID, "", "", "remove")
               /\ UNCHANGED sessFiles
          ELSE /\ sessFiles' = Delete(sessFiles, SessionPath(sessionID))
               /\ hlast' = HistoryCall("DeleteSession", sessionID, "", "", "nil")
       /\ hpc' = [hpc EXCEPT ![p] = "returned"]
       /\ UNCHANGED <<hcur, curFile, hgen, chatVars, body, failAt, spc, scanVars,
                      result, err, argVars, request, cancelled, bodyClosed, ask, fpc,
                      mgrVars, cliVars, multiVars, factory>>

\* the call has returned and the caller goes on
HistoryReturn ==
    \E p \in Procs :
       /\ hpc[p] = "returned"
       /\ hpc' = [hpc EXCEPT ![p] = "idle"]
       /\ hlast' = NoHistoryCall
       /\ UNCHANGED <<hcur, curFile, sessFiles, hgen, chatVars, body, failAt, spc,
                      scanVars, result, err, argVars, request, cancelled, bodyClosed,
                      ask, fpc, mgrVars, cliVars, multiVars, factory>>

\* rootCmd.Run of process p after GetDefaultModel: model.Chat returns an
\* error and the command returns, or returns a response
TurnChat ==
    \E p \in Procs, ok \in BOOLEAN :
       /\ hpc[p] = "run"
       /\ hpc' = [hpc EXCEPT ![p] = IF ok THEN "asked" ELSE "exit"]
       /\ UNCHANGED <<hcur, curFile, sessFiles, hlast, hgen, chatVars, body, failAt,
                      spc, scanVars, result, err, argVars, request, cancelled,
                      bodyClosed, ask, fpc, mgrVars, cliVars, multiVars, factory>>

\* historyManager.AddUserMessage(question)
TurnAddUser ==
    \E p \in Procs :
       /\ hpc[p] = "asked"
       /\ AddMessage(p, "user", "q")
       /\ hpc' = [hpc EXCEPT ![p] = "added"]
       /\ hlast' = HistoryCall("AddUserMessage", NoSession.ID, "user", "q", "nil")
       /\ UNCHANGED <<hgen, chatVars, body, failAt, spc, scanVars, result, err,
                      argVars, request, cancelled, bodyClosed, ask, fpc, mgrVars,
                      cliVars, multiVars, factory>>

\* historyManager.AddAssistantMessage(response), and the command returns
TurnAddAssistant ==
    \E p \in Procs, response \in Contents :
       /\ hpc[p] = "added"
       /\ AddMessage(p, "assistant", response)
       /\ hpc' = [hpc EXCEPT ![p] = "exit"]
       /\ hlast' = HistoryCall("AddAssistantMessage", NoSession.ID, "assistant",
                               response, "nil")
       /\ UNCHANGED <<hgen, chatVars, body, failAt, spc, scanVars, result, err,
                      argVars, request, cancelled, bodyClosed, ask, fpc, mgrVars,
                      cliVars, multiVars, factory>>

\* no model and no client is called
OnlyClientIdle ==
    /\ NoFacade
    /\ cfgURL = <<>>
    /\ optStream = FALSE
    /\ optTempOK = TRUE
    /\ net = TransportFailure
    /\ body = <<>>
    /\ failAt = -1
    /\ pc = "new"
    /\ reqURL = <<>>
    /\ requests = 0
    /\ peerURL = <<>>
    /\ peerReq = <<>>
    /\ spc = "off"
    /\ avail = 0
    /\ serr = "nil"
    /\ pos = 0
    /\ brk = FALSE
    /\ fullContent = <<>>
    /\ stdout = <<>>
    /\ result = <<>>
    /\ err = NoErr
    /\ messages = <<>>
    /\ opts = ClientOpts(DefaultChatOptions)
    /\ request = NoRequest
    /\ cancelled = "no"
    /\ bodyClosed = FALSE

\* nothing but the history manager runs
OnlyHistory ==
    /\ NoManager
    /\ NoCLI
    /\ NoMulti
    /\ factory = NoFactory
    /\ OnlyClientIdle

\* one process calls the history manager on an empty storage directory
InitHistory ==
    /\ hcur = [p \in Procs |-> NoSession]
    /\ curFile = NoSession
    /\ sessFiles = <<>>
    /\ hpc = [p \in Procs |-> IF p = 1 THEN "new" ELSE "absent"]
    /\ hlast = NoHistoryCall
    /\ hgen = 0
    /\ OnlyHistory

\* the turns a stored session can hold when the direct-question command wrote
\* it: none, or a question and its answer
StoredTurns ==
    { <<>>,
      << HistoryMessage("user", "q"), HistoryMessage("assistant", "r") >>,
      << HistoryMessage("user", "q"), HistoryMessage("assistant", "r"),
         HistoryMessage("user", "q"), HistoryMessage("assistant", ReplacementChar) >> }

\* the direct-question command is started in every process, on an empty
\* storage directory or on a session that the command wrote
InitTurns ==
    /\ hcur = [p \in Procs |-> NoSession]
    /\ \/ /\ curFile = NoSession
          /\ sessFiles = <<>>
          /\ hgen = 0
       \/ \E turns \in StoredTurns :
             /\ curFile = [ID |-> SessionID("", 1), Messages |-> turns]
             /\ sessFiles = IF turns = <<>> THEN <<>>
                            ELSE Put(<<>>, SessionPath(curFile.ID), curFile)
             /\ hgen = 1
    /\ hpc = [p \in Procs |-> "cmd"]
    /\ hlast = NoHistoryCall
    /\ OnlyHistory

NextTurns ==
    \/ NewManager
    \/ TurnChat
    \/ TurnAddUser
    \/ TurnAddAssistant

SpecTurns == InitTurns /\ [][NextTurns]_vars

NextHistory ==
    \/ NewManager
    \/ HistoryNew
    \/ AddUserMessage
    \/ AddAssistantMessage
    \/ SwitchSession
    \/ DeleteSession
    \/ HistoryReturn

SpecHistory == InitHistory /\ [][NextHistory]_vars

\* ------------------------------------------------------------ the factory
\* the names and the base URLs that CreateModel is given
FactoryNames ==
    { <<>>, GptWord, OpenAIWord, ClaudeWord, AnthropicWord,
      <<"G", "P", "T">>,
      <<"G", "p", "t", "-", "4">>,
      <<"m", "y", "-", "g", "p", "t", "4", "o">>,
      <<"O", "p", "e", "n", "A", "I">>,
      <<"O", "P", "E", "N", "A", "I">>,
      <<"C", "l", "a", "u", "d", "e">>,
      <<"C", "L", "A", "U", "D", "E", "-", "3">>,
      <<"A", "n", "t", "h", "r", "o", "p", "i", "c">>,
      <<"c", "l", "a", "u", "d", "e", "-", "g", "p", "t">>,
      <<"G", "P", "T", "-", "C", "l", "a", "u", "d", "e">>,
      <<"o", "p", "e", "n", "a", "i", "-", "a",
        "n", "t", "h", "r", "o", "p", "i", "c">>,
      <<"A", "n", "t", "h", "r", "o", "p", "i",
        "c", "-", "O", "p", "e", "n", "A", "I">>,
      <<"l", "l", "a", "m", "a">>,
      <<"g", "p">>,
      <<"c", "l", "a", "u", "d", "-", "e">> }
FactoryURLs ==
    { <<>>, OpenAIHost,
      <<"a", "p", "i", ".", "a", "n", "t", "h",
        "r", "o", "p", "i", "c", ".", "c", "o", "m">> }
FactoryQuestions == { <<"q">>, <<>> }

\* CreateModel(config), on its own
FactoryCreate ==
    /\ factory.pc = "new"
    /\ factory' = [factory EXCEPT
                      !.pc = "created",
                      !.type = determineModelType(factory.name, factory.url),
                      !.err = CreateModelErr([Name |-> factory.name,
                                              URL |-> factory.url])]
    /\ UNCHANGED <<chatVars, body, failAt, spc, scanVars, result, err, argVars,
                   request, cancelled, bodyClosed, ask, fpc, mgrVars, cliVars,
                   multiVars, histVars>>

\* AnthropicModel.Chat of the model that CreateModel returned
FactoryAnthropicChat ==
    /\ factory.pc = "created"
    /\ factory.type = "anthropic"
    /\ \E question \in FactoryQuestions :
          factory' = [factory EXCEPT !.pc = "replied", !.question = question,
                                     !.reply = AnthropicChat(question)]
    /\ UNCHANGED <<chatVars, body, failAt, spc, scanVars, result, err, argVars,
                   request, cancelled, bodyClosed, ask, fpc, mgrVars, cliVars,
                   multiVars, histVars>>

InitFactory ==
    /\ \E name \in FactoryNames, url \in FactoryURLs :
          factory = [NoFactory EXCEPT !.pc = "new", !.name = name, !.url = url]
    /\ NoManager
    /\ NoCLI
    /\ NoMulti
    /\ NoHistory
    /\ OnlyClientIdle

NextFactory ==
    \/ FactoryCreate
    \/ FactoryAnthropicChat

SpecFactory == InitFactory /\ [][NextFactory]_vars

\* ================================================== properties of the model
\* the place of the last option of that constructor among the options passed, or 0
LastOption(options, name) ==
    LET at == { i \in 1..Len(options) : options[i].name = name }
    IN IF at = {} THEN 0 ELSE CHOOSE i \in at : \A j \in at : j <= i

\* the history the caller supplied through the options
SuppliedHistory ==
    LET i == LastOption(ask.options, "WithHistory")
    IN IF i = 0 THEN <<>> ELSE ask.options[i].history

\* a call of the model has built its request
AskSent == fpc # "off" /\ request.built

\* C11: every ask through the model, with or without a file, sends the history
\* supplied through the options, in its order, followed by exactly one new
\* message of role "user".
C11_HistoryThenOneUserMessage ==
    AskSent
    => LET h == SuppliedHistory
           n == Len(request.messages)
       IN /\ n = Len(h) + 1
          /\ SubSeq(request.messages, 1, Len(h)) = h
          /\ request.messages[n].role = "user"

\* the template of ChatWithFile filled with the call's file name, file
\* content and question, in that order
FileTemplate ==
    <<"file name: ">> \o ask.fileName \o <<"\n\nfile content:\n">>
        \o ask.fileContent \o <<"\n\nquestion: ">> \o ask.question

\* C12: ChatWithFile sends the file inside one message of role "user" whose
\* content is the template filled with file name, file content and question in
\* that order; it is the last message of the request and the only one that
\* does not come from the supplied history.
C12_FileInOneUserMessage ==
    (AskSent /\ ask.method = "ChatWithFile")
    => LET n == Len(request.messages)
       IN /\ n >= 1
          /\ request.messages[n] = [role |-> "user", content |-> FileTemplate]
          /\ SubSeq(request.messages, 1, n - 1) \in {<<>>, SuppliedHistory}

C12_Witness ==
    /\ fpc = "ret"
    /\ ask.method = "ChatWithFile"
    /\ ask.fileContent # <<>>
    /\ requests = 1
    /\ request.messages = << [role |-> "user", content |-> FileTemplate] >>

\* the server answered 200 with one JSON envelope that has a first choice
AnsweredEnvelope ==
    /\ net.kind = "response"
    /\ net.status = 200
    /\ failAt = -1
    /\ Len(body) = 1
    /\ body[1].pre = ""
    /\ body[1].payload = "{object}"
    /\ Len(body[1].choices) >= 1

\* C13: Chat and ChatWithFile of the model, called with no options against a
\* server that answers 200 with a well-formed JSON envelope, return the content
\* of the envelope's first choice and no error.
C13_NoOptionsReturnsFirstChoice ==
    (fpc = "ret" /\ ask.options = <<>> /\ AnsweredEnvelope)
    => (/\ err = NoErr
        /\ result = body[1].choices[1].message)

\* the settings a request must carry when the call starts from the config's
\* DefaultChatOptions, or from 0.2, 4096 and stream when the config has none,
\* and the options passed override them
ExpectedSettings ==
    LET t == LastOption(ask.options, "WithTemperature")
        k == LastOption(ask.options, "WithMaxTokens")
        st == LastOption(ask.options, "WithStream")
    IN [temperature |->
            IF t # 0 THEN ask.options[t].temp
            ELSE IF ask.hasDefaults THEN ask.defaults.Temperature ELSE 20,
        max_tokens |->
            IF k # 0 THEN ask.options[k].tokens
            ELSE IF ask.hasDefaults THEN ask.defaults.MaxTokens ELSE 4096,
        stream |->
            IF st # 0 THEN ask.options[st].stream
            ELSE IF ask.hasDefaults THEN ask.defaults.Stream ELSE TRUE]

\* C14: when the model's config carries DefaultChatOptions, every request of
\* Chat and of ChatWithFile starts from them and only the options passed
\* override them; without them the request starts from 0.2, 4096 and stream.
C14_ConfigDefaultsAreTheStart ==
    AskSent
    => (/\ request.temperature = ExpectedSettings.temperature
        /\ request.max_tokens = ExpectedSettings.max_tokens
        /\ request.stream = ExpectedSettings.stream)

\* =================================================== properties of the manager
\* a second manager was started on the file that holds what the first
\* manager has registered, and the first manager has a model
RestartedOnSavedFile ==
    /\ mpc = "restarted"
    /\ fresh.inited
    /\ configFile = [exists |-> TRUE, configs |-> configs]
    /\ DOMAIN configs # {}

\* C15: after any sequence of AddModel, SetDefaultModel, UpdateModelConfig and
\* RemoveModel that leaves a model registered, a fresh manager that runs Init
\* on the saved file reports the default model name of the manager that wrote
\* the file.
C15_DefaultSurvivesRestart ==
    RestartedOnSavedFile => fresh.defaultModel = defaultModel

\* ============================================== properties of one call of Chat
\* Do returned a response with status 200
GotSuccessStatus ==
    /\ requests = 1
    /\ net.kind = "response"
    /\ net.status = 200

\* C16: on a 200 response Chat chooses the decoder from the requested stream
\* flag alone: with stream the body goes to the stream decoder, without it to
\* the single JSON decode, whatever the Content-Type and the body are.
C16_DecodePathFromStreamFlag ==
    GotSuccessStatus
    => (/\ optStream => (spc # "off" /\ pc # "awaiting")
        /\ ~optStream => (spc = "off" /\ pc # "streaming"))

C16_Witness ==
    /\ GotSuccessStatus
    /\ optStream
    /\ net.ctype = "application/json"
    /\ body = <<EnvA>>
    /\ spc = "ret"
    /\ pc = "done"
    /\ result = <<>>

\* the steps of the state machine of one call; Failed is entered from every
\* state that is not final
CallSteps ==
    { <<"idle", "sending">>, <<"idle", "failed">>,
      <<"sending", "awaiting">>, <<"sending", "streaming">>, <<"sending", "failed">>,
      <<"awaiting", "done">>, <<"awaiting", "failed">>,
      <<"streaming", "done">>, <<"streaming", "failed">> }

\* C17: a call of Chat moves Idle -> Sending -> (AwaitingBody | StreamingDecode)
\* -> Done | Failed, where a failure in any state leads to Failed; it sends at
\* most one request, an error is returned only in Failed, and Done and Failed
\* are final.
C17_OneAttemptLifecycle ==
    [][/\ pc' # pc => <<pc, pc'>> \in CallSteps
       /\ requests' <= 1
       /\ requests' # requests => (pc = "sending" /\ pc' # "sending")
       /\ err' # NoErr => pc' = "failed"
       /\ pc \in {"done", "failed"} => (pc' = pc /\ requests' = requests)]_vars

C17_Witness ==
    /\ pc = "failed"
    /\ requests = 1
    /\ err.kind = "scan"

\* ========================================= properties of a cancelled call
\* the call has returned
Returned18 == pc \in {"done", "failed"}

\* C18 as stated: a call whose ctx was cancelled in flight returns a
\* transport error, with the body closed.
C18_CancelGivesTransportError ==
    (cancelled # "no" /\ Returned18) => err.kind = "transport"

\* what a call returns once its ctx was cancelled in flight
CancelledReturn ==
    (cancelled # "no" /\ Returned18)
    => (/\ net.kind = "error" => (err.kind = "transport" /\ cancelled = "sending")
        /\ net.kind = "response" => bodyClosed
        /\ (net.kind = "response" /\ net.status # 200) => err.kind = "api"
        /\ (net.kind = "response" /\ net.status = 200 /\ optStream)
              => (/\ result = fullContent
                  /\ err.kind \in {"nil", "scan"}
                  /\ err.kind = "scan" <=> serr \in {"read", "toolong"}
                  /\ (failAt # -1 /\ ~brk /\ serr # "toolong") => err.kind = "scan")
        /\ (net.kind = "response" /\ net.status = 200 /\ ~optStream)
              => err.kind \in {"nil", "parse", "empty"})

\* C18: cancelling ctx while Chat waits for the response makes Do fail and the
\* call return a transport error; cancelling it once the response is there
\* makes the reads of the body fail after what had arrived, so that a stream
\* decode returns the text so far with a stream-read error, or without error
\* when the scanner met [DONE] or the end of the body before the failure, and
\* a single decode returns its result or a parse error. The body of a response is closed on every
\* return path, and a cancelled call always returns.
C18_CancelledCallReturns ==
    /\ []CancelledReturn
    /\ (cancelled # "no") ~> Returned18

C18_Witness ==
    /\ cancelled = "streaming"
    /\ pc = "failed"
    /\ err.kind = "scan"
    /\ result # <<>>
    /\ failAt < Len(body)
    /\ bodyClosed

\* ================================================ properties of the commands
\* a chat operation of the command returned an error
ChatFailed ==
    /\ cpc = "exit"
    /\ fpc = "ret"
    /\ err # NoErr

\* C19: every error of a chat operation reaches the command unchanged, is
\* printed, and makes the process exit with a status that is not zero.
C19_ChatErrorPrintedAndExitNonZero ==
    ChatFailed
    => (/\ \E i \in 1..Len(stderr) : stderr[i].err = err
        /\ exitCode # 0)

\* ============================================ properties of askMultiModels
\* the one-to-one assignments of the results received to the names asked
Pairings ==
    { f \in [1..Len(received) -> 1..Len(modelNames)] :
        \A j, k \in 1..Len(received) : j # k => f[j] # f[k] }

\* C20: askMultiModels with n names runs one worker per name and, in every
\* interleaving, the loop ends having received exactly n results, one for each
\* name asked: the result its worker made, an error result for a name that is
\* not registered or whose call failed, and no result of another model is
\* dropped or changed by it.
C20_OneResultPerName ==
    /\ Len(wpc) <= Len(modelNames)
    /\ Len(received) <= Len(modelNames)
    /\ \E f \in Pairings :
          \A k \in 1..Len(received) :
             /\ received[k].modelName = modelNames[f[k]]
             /\ received[k] = wres[f[k]]
             /\ modelNames[f[k]] \notin Names
                   => (received[k].err.kind = "ErrModelNotFound"
                       /\ received[k].response = <<>>)
             /\ modelNames[f[k]] = "claude"
                   => (received[k].err = NoErr
                       /\ received[k].response # <<>>)
    /\ mainpc = "done" => Len(received) = Len(modelNames)

C20_Witness ==
    /\ mainpc = "done"
    /\ Len(modelNames) = 2
    /\ Len(received) = 2
    /\ received[1].modelName = modelNames[2]
    /\ received[1].err # NoErr
    /\ received[2].err = NoErr

\* at every moment: a worker that is about to send finds room in an open
\* channel, no worker has panicked, and the channel is closed at most once
\* and only after every one of the n workers has sent and finished
MultiChannelSafe ==
    /\ \A i \in 1..Len(wpc) :
          /\ wpc[i] # "panic"
          /\ wpc[i] = "send" => (chClosed = 0 /\ Len(responsesCh) < Len(modelNames))
    /\ chClosed <= 1
    /\ chClosed = 1 => (/\ Len(wpc) = Len(modelNames)
                        /\ \A i \in 1..Len(wpc) : wpc[i] = "done")
    /\ mainpc = "done" => (chClosed = 1 /\ responsesCh = <<>>)

\* C21: askMultiModels always terminates without deadlock: the channel has
\* room for n results so no worker waits on its send, it is closed exactly
\* once and only after all n workers have sent, nothing is sent on the closed
\* channel, and the range loop ends after the close, also for one name and for
\* repeated names.
C21_MultiTerminates ==
    /\ []MultiChannelSafe
    /\ <>(mainpc = "done")

C21_Witness ==
    /\ mainpc = "done"
    /\ Len(modelNames) = 2
    /\ modelNames[1] = modelNames[2]
    /\ chClosed = 1
    /\ Len(received) = 2

\* ------------------------------------------- the registry and its default name
\* C22: after any sequence of AddModel, RemoveModel, SetDefaultModel and
\* UpdateModelConfig the default model name is empty or the name of a model
\* that is registered
C22_DefaultIsRegistered ==
    mpc \in {"ready", "returned"} =>
        (defaultModel = "" \/ defaultModel \in DOMAIN configs)

\* C23: after Init and any sequence of AddModel, RemoveModel, SetDefaultModel
\* and UpdateModelConfig, whatever each call returned, the names that have a
\* model instance are the names that have a configuration
C23_ModelsMatchConfigs ==
    mpc # "off" => DOMAIN models = DOMAIN configs

\* RemoveModel failed to write the file, and the other model is all that is
\* left in both maps
C23_Witness ==
    /\ mlast.op = "RemoveModel"
    /\ merr = "write"
    /\ DOMAIN configs = {"claude"}
    /\ DOMAIN models = {"claude"}

\* C24: no assignment that a caller makes to a config returned by
\* GetModelConfig or ListModels, or to a field of its DefaultChatOptions,
\* changes a configuration of the registry
C24_ReturnedConfigIsACopy ==
    [][(held.has /\ held'.has /\ held' # held /\ mlast' = mlast)
          => configs' = configs]_vars

\* C25: AddModel of a registered name returns ErrModelExists and leaves the
\* configurations, the instances and the default name as they were; AddModel
\* of a new name registers it, and sets the default name to it exactly when
\* it is then the only registered model or defaultEnabled is true
C25_AddModel ==
    [][(mlast.op = "none" /\ mlast'.op = "AddModel") =>
          LET name == mlast'.name
          IN IF name \in DOMAIN configs
             THEN /\ merr' = "ErrModelExists"
                  /\ configs' = configs
                  /\ models' = models
                  /\ defaultModel' = defaultModel
             ELSE /\ DOMAIN configs' = DOMAIN configs \cup {name}
                  /\ DOMAIN models' = DOMAIN models \cup {name}
                  /\ \A n \in DOMAIN configs :
                        configs'[n] = configs[n] /\ models'[n] = models[n]
                  /\ configs'[name].DefaultEnabled = mlast'.defaultEnabled
                  /\ defaultModel' =
                        IF DOMAIN configs' = {name} \/ mlast'.defaultEnabled
                        THEN name ELSE defaultModel]_vars

\* a second model was added without defaultEnabled, and the first stays the
\* default
C25_Witness ==
    /\ mlast.op = "AddModel"
    /\ mlast.name = "claude"
    /\ ~mlast.defaultEnabled
    /\ merr = "nil"
    /\ DOMAIN configs = {"gpt", "claude"}
    /\ defaultModel = "gpt"

\* C26: RemoveModel, SetDefaultModel, UpdateModelConfig, GetModel and
\* GetModelConfig of a name that is not registered return ErrModelNotFound and
\* leave the configurations, the instances and the default name as they were
C26_UnknownName ==
    [][(/\ mlast.op = "none"
        /\ mlast'.op \in {"RemoveModel", "SetDefaultModel", "UpdateModelConfig",
                          "GetModel", "GetModelConfig"}
        /\ mlast'.name \notin DOMAIN configs)
          => /\ merr' = "ErrModelNotFound"
             /\ configs' = configs
             /\ models' = models
             /\ defaultModel' = defaultModel]_vars

\* GetModelConfig of a name that is not registered, next to one that is
C26_Witness ==
    /\ mlast.op = "GetModelConfig"
    /\ mlast.name = "claude"
    /\ merr = "ErrModelNotFound"
    /\ DOMAIN configs = {"gpt"}

\* ------------------------------------------------------------ the sessions
\* the messages are a user message, an assistant message, and so on in turn
Alternates(msgs) ==
    \A i \in 1..Len(msgs) :
       msgs[i].Role = IF i % 2 = 1 THEN "user" ELSE "assistant"

\* C27: the direct-question command adds to the session only after Chat
\* returned without error, the question and then the response, so that a
\* stored session that only this command wrote holds user and assistant
\* messages in turn, starting with a user message
C27_StoredSessionAlternates ==
    /\ Alternates(curFile.Messages)
    /\ \A f \in DOMAIN sessFiles : Alternates(sessFiles[f].Messages)

\* the file of the directory sessions that holds the session
StoredFileOf(sess) == sess.ID.name

\* C28: DeleteSession with the ID of the current session returns an error and
\* removes nothing, and no call of DeleteSession removes the stored file of
\* the current session
C28_CurrentSessionFileKept ==
    [][(hlast.op = "none" /\ hlast'.op = "DeleteSession") =>
          /\ hlast'.id = hcur[1].ID =>
                (hlast'.err # "nil" /\ sessFiles' = sessFiles)
          /\ StoredFileOf(hcur[1]) \in DOMAIN sessFiles =>
                StoredFileOf(hcur[1]) \in DOMAIN sessFiles']_vars

SameLetter(a, b) ==
    \/ a = b
    \/ \E k \in 1..Len(UpperLetters) : {a, b} = {UpperLetters[k], LowerLetters[k]}

\* the name contains the word, whatever the case of its letters
Mentions(name, word) ==
    \E i \in 1..Len(name) :
       /\ i + Len(word) - 1 <= Len(name)
       /\ \A j \in 1..Len(word) : SameLetter(name[i + j - 1], word[j])

\* the backend that goes with a name: OpenAI words first, then Anthropic words
BackendOf(name) ==
    IF Mentions(name, <<"o", "p", "e", "n", "a", "i">>)
          \/ Mentions(name, <<"g", "p", "t">>)
    THEN "openai"
    ELSE IF Mentions(name, <<"a", "n", "t", "h", "r", "o", "p", "i", "c">>)
               \/ Mentions(name, <<"c", "l", "a", "u", "d", "e">>)
    THEN "anthropic"
    ELSE "openai"

\* C30: CreateModel returns no error and a model of the OpenAI backend for a
\* name that contains "openai" or "gpt" in any case, even next to "anthropic"
\* or "claude", of the Anthropic backend for any other name that contains
\* "anthropic" or "claude", and of the OpenAI backend for every other name and
\* URL; the Chat of the Anthropic backend returns "[Anthropic] Response to: "
\* and the question without any HTTP request
C30_Backend ==
    /\ factory.pc \in {"created", "replied"} =>
          /\ factory.err = "nil"
          /\ factory.type = BackendOf(factory.name)
    /\ factory.pc = "replied" =>
          /\ requests = 0
          /\ factory.reply = <<"[Anthropic] Response to: ">> \o factory.question

\* a name with "GPT" and "Claude" in it got the OpenAI backend
C30_Witness ==
    /\ factory.pc = "created"
    /\ Mentions(factory.name, <<"G", "P", "T">>)
    /\ Mentions(factory.name, <<"c", "l", "a", "u", "d", "e">>)
    /\ factory.name[1] = "G"
    /\ factory.type = "openai"
====
